---- MODULE Spec2Model ----
(***************************************************************************)
(* cipherstream: peer-to-peer file transfer.                               *)
(*                                                                         *)
(* The parts of the repository are modelled each under its own            *)
(* specification over the same variables:                                  *)
(*                                                                         *)
(*  SpecWire    the request/response file transfer: the sending node of    *)
(*              src/network/mod.rs (start_temp_node_and_send_file,         *)
(*              send_handshake_request, send_file, cancel_transfer) and    *)
(*              the two request handlers of the repository                 *)
(*              (protocol::handle_handshake_event, which writes the        *)
(*              chunks, and network::handle_req_resp_event, which only     *)
(*              acknowledges them).                                        *)
(*              The file being sent may be appended to or cut short by     *)
(*              another process while it is sent, and the chunk handler    *)
(*              takes one step for each await (open, seek, write_all,      *)
(*              flush).                                                    *)
(*  SpecDomain  the domain layer: TransferDomainService and                *)
(*              PeerDomainService of src/core/services.rs over the         *)
(*              in-memory repositories and the in-memory event log, one    *)
(*              step for each await of a method.                           *)
(*  SpecService the methods of TransferDomainService called from a task    *)
(*              each, on either event bus and kind of repository; the      *)
(*              consumer of the channel bus fans out to the handler list   *)
(*              passed to start_processing.                                *)
(*  SpecRecv    the receiving node alone, answering any requests a remote  *)
(*              peer may send.                                             *)
(*  SpecManager FileTransferManager of src/file_transfer/mod.rs, with the  *)
(*              writes tokio::fs::File hands to the blocking pool.         *)
(*              A write that fails may leave a prefix of its data.         *)
(*  SpecBus     the event publishers of src/infrastructure/events.rs.      *)
(*  SpecNet     the domain layer next to the swarm task's connection       *)
(*              events (src/infrastructure/network.rs).                    *)
(*  SpecRepo    two concurrent callers of one TransferRepository, in       *)
(*              memory or on sled (src/infrastructure/repositories.rs).    *)
(*                                                                         *)
(* Sizes are scaled: CHUNK_SIZE is 2 bytes instead of 1 MiB, files have    *)
(* at most MaxFileLen bytes (MaxFileSize in the domain layer), and a u64   *)
(* holds the values below U64_MODULUS.                                     *)
(* Timestamps (started_at, completed_at, last_seen) and the derived f32    *)
(* percentage are not modelled.                                            *)
(***************************************************************************)
EXTENDS Integers, Sequences, FiniteSets, TLC

\* ------------------------------------------------------------------ bounds
CHUNK_SIZE == 2
MaxFileLen == 3
MaxFileSize == 2
MaxTransfers == 1
MaxPeers == 1
MaxEvents == 5
MaxProgress == 2
MaxRequests == 3
max_concurrent_transfers == 1
MaxOffset == 1
MaxConns == 2
MaxPublish == 2
MAX_FRAME_SIZE == 9
MAX_HANDSHAKE_SIZE == 6
MaxByte == 2
MaxPayload == 5
MaxDataLen == 4
MaxPlainLen == 2
MaxCommands == 2
MaxListenAddrs == 2
MaxAddrs == 2
MaxAddedFiles == 1
MaxCallers == 1
MaxOrphans == 1
MaxAppend == 1
U64_MODULUS == 32
NONCE_LEN == 12
TAG_LEN == 16
KEY_LEN == 32

VARIABLES
    \* ---- wire: sending node (network/mod.rs)
    sFile,          \* content of the file when the user asked to send it
    sDisk,          \* content of that file on the sender's disk now
    sFileSize,      \* send_file: file_size, taken once from the metadata
    sPc,            \* position of start_temp_node_and_send_file
    sTid,           \* transfer id handed to send_file
    sOffset,        \* send_file: offset
    sChunkIndex,    \* send_file: chunk_index
    sObserved,      \* responses the sender's event loop has handled
    sent,           \* every request passed to send_request, in order
    net,            \* requests in flight to the receiver
    \* ---- wire: receiving node
    rImpl,        \* which request handler the receiving node runs
    rNode,          \* the build the receiving node runs, "panicked" once a handler has
    rHandler,       \* the FileChunk handler the receiving node is awaiting in, if any
    PENDING_FILES,  \* protocol/mod.rs: peer -> pending filename
    downloads,      \* files on the receiver's disk: resolved path -> content
    respLog,        \* every response passed to send_response, in order
    resp,           \* responses in flight to the sender
    \* ---- domain layer
    transfers,      \* InMemoryTransferRepository.transfers
    files,          \* InMemoryFileRepository.files (ids)
    peers,          \* InMemoryPeerRepository.peers
    events,         \* InMemoryEventPublisher.event_log
    \* ---- file_transfer: FileTransferManager
    mgr_active_transfers,   \* FileTransferManager.active_transfers
    \* ---- infrastructure/network.rs: the swarm task
    connected_peers,        \* handle_swarm_event: connected_peers
    open_connections,       \* the swarm's established connections per peer
    \* ---- concurrent callers of one TransferRepository
    repoImpl,       \* "memory" or "sled"
    taskPc,         \* position of each caller
    taskLocal,      \* the record each caller has read (let mut tr)
    \* ---- infrastructure/events.rs: the two event buses
    bus_kind,       \* which EventPublisher the application constructed
    runtime,        \* the flavour of the tokio runtime the callers run on
    mem_handlers,   \* InMemoryEventPublisher.handlers
    chan_handlers,  \* ChannelEventPublisher.handlers
    event_tx,       \* events buffered in the unbounded channel
    event_rx,       \* who holds the receiver returned by new()
    cons,           \* the task running start_processing
    pubs,           \* each publishing task: position and locals of publish
    bus_received,   \* per bus and handler: events whose handling has started
    returned,       \* every publish call that has returned
    \* ---- file_transfer/request_handler.rs: FileTransferCodec on one substream
    io,             \* the bytes the reading side finds on the substream
    written,        \* the message the writing side encoded, if it was the codec
    rd,             \* outcome of the read on this substream
    \* ---- core/crypto.rs: one encrypt call and one decrypt call
    enc,            \* the encrypt call: arguments and result
    dec,            \* the decrypt call: arguments and result
    \* ---- infrastructure/network.rs: run_swarm_task
    swarm_task,         \* "running" while the loop of run_swarm_task runs
    command_rx,         \* commands buffered in the command channel
    submitted,          \* every command sent on command_tx, in order
    handled,            \* every command handle_command returned for, with result
    listening,          \* listen_on has succeeded
    listen_events,      \* number of NewListenAddr events handled
    bootstrap_attempted,\* run_swarm_task: bootstrap_attempted
    bootstrap_log,      \* every kademlia.bootstrap() call of the event branch
    \* ---- discovery/mod.rs and infrastructure/services.rs: learned addresses
    DISCOVERED_PEERS,   \* discovery/mod.rs: the global peer -> addresses map
    discovered_peers,   \* NetworkServiceImpl.discovered_peers
    reported,           \* per map and peer: every address passed in so far
    \* ---- core/services.rs: concurrent calls of TransferDomainService
    handler_saw,        \* each event a handler was given, and the stored status then
    cleared_events,     \* the events clear_events has taken out of the event log
    \* ---- file_transfer/mod.rs: FileTransferManager, history of the entries
    mgr_chunks,         \* per transfer id: the chunks accepted since the entry was made
    blocking_pool,      \* tokio::fs::File: writes handed to the blocking pool, not yet done
    last_write_err,     \* tokio::fs::File: the transfer ids whose writer holds a write error
    \* ---- the last operation called and its result
    lastOp

wireVars == <<sFile, sDisk, sFileSize, sPc, sTid, sOffset, sChunkIndex, sObserved, sent, net,
              rImpl, rNode, rHandler, PENDING_FILES, downloads, respLog, resp>>
domainVars == <<transfers, files, peers, events>>
ftVars == <<mgr_active_transfers>>
netVars == <<connected_peers, open_connections>>
repoVars == <<repoImpl, taskPc, taskLocal>>
busVars == <<bus_kind, runtime, mem_handlers, chan_handlers, event_tx, event_rx, cons, pubs,
             bus_received, returned>>
codecVars == <<io, written, rd>>
cryptoVars == <<enc, dec>>
swarmVars == <<swarm_task, command_rx, submitted, handled, listening,
               listen_events, bootstrap_attempted, bootstrap_log>>
discoveryVars == <<DISCOVERED_PEERS, discovered_peers, reported>>
serviceVars == <<handler_saw, cleared_events>>
managerVars == <<mgr_chunks, blocking_pool, last_write_err>>
lateVars == <<swarmVars, discoveryVars, serviceVars, managerVars>>
extVars == <<busVars, codecVars, cryptoVars, lateVars>>
otherVars == <<ftVars, netVars, repoVars, extVars>>
vars == <<sFile, sDisk, sFileSize, sPc, sTid, sOffset, sChunkIndex, sObserved, sent, net,
          rImpl, rNode, rHandler, PENDING_FILES, downloads, respLog, resp,
          transfers, files, peers, events, lastOp,
          mgr_active_transfers,
          connected_peers, open_connections, repoImpl, taskPc, taskLocal,
          extVars>>

\* ------------------------------------------------------------- helpers
Min(a, b) == IF a <= b THEN a ELSE b

Range(s) == {s[i] : i \in 1..Len(s)}

None == "None"

TransferIds == 1..MaxTransfers
PeerIds == 1..MaxPeers

\* The sending peer as the receiver sees it, the file name taken from the
\* path, and the uuid made by send_handshake_request.
SenderPeer == "sender"
FileName == "f.bin"

\* The file names a peer may put into a handshake, and the split of each at
\* the path separator.
FileNames == {"f.bin", "../evil"}
Components(name) ==
    CASE name = "f.bin" -> <<"f.bin">>
      [] name = "../evil" -> <<"..", "evil">>

\* protocol/mod.rs: let downloads_dir = "downloads"
DownloadDir == <<"downloads">>

\* What the operating system makes of a relative path when it opens it: a
\* ".." component leaves the directory reached so far.
RECURSIVE Normalize(_, _)
Normalize(done, rest) ==
    IF rest = <<>> THEN done
    ELSE IF Head(rest) = ".." /\ done # <<>>
           THEN Normalize(SubSeq(done, 1, Len(done) - 1), Tail(rest))
           ELSE Normalize(Append(done, Head(rest)), Tail(rest))

\* format!("{}/{}", dir, file_name), as the path the file is opened under.
format_path(dir, file_name) == Normalize(<<>>, dir \o Components(file_name))

\* The path lies below the directory dir.
InsideDir(path, dir) ==
    Len(path) > Len(dir) /\ SubSeq(path, 1, Len(dir)) = dir
Tid == "T1"

\* A file of n bytes; byte k holds k, so a misplaced byte is visible.
\* Bytes the receiver's file system fills a gap with are 0.
FileOfSize(n) == [k \in 1..n |-> k]

\* network/mod.rs: (file_size + chunk_size - 1) / chunk_size
TotalChunks(file_size) == (file_size + CHUNK_SIZE - 1) \div CHUNK_SIZE

\* ----------------------------------------------------------- messages
HandshakeRequest(filename, filesize, tid) ==
    [type |-> "HandshakeRequest", filename |-> filename,
     filesize |-> filesize, transfer_id |-> tid]

FileChunk(tid, idx, total, data, last) ==
    [type |-> "FileChunk", transfer_id |-> tid, chunk_index |-> idx,
     total_chunks |-> total, data |-> data, is_last |-> last]

CancelTransfer(tid) == [type |-> "CancelTransfer", transfer_id |-> tid]

HandshakeResponse(accepted, reason, tid) ==
    [type |-> "HandshakeResponse", accepted |-> accepted,
     reason |-> reason, transfer_id |-> tid]

ChunkResponse(tid, idx, success, error) ==
    [type |-> "ChunkResponse", transfer_id |-> tid, chunk_index |-> idx,
     success |-> success, error |-> error]

TransferComplete(tid, success, error) ==
    [type |-> "TransferComplete", transfer_id |-> tid,
     success |-> success, error |-> error]

\* swarm.behaviour_mut().request_response.send_request(peer_id, request)
SendRequest(m) ==
    /\ sent' = Append(sent, m)
    /\ net' = net \cup {m}

\* ------------------------------------------------------------- sender
\* start_temp_node_and_send_file, SwarmEvent::ConnectionEstablished with
\* handshake_sent = false: send_handshake_request.  metaOk is the outcome
\* of tokio::fs::metadata, which reports the size the file has now.
ConnectionEstablished ==
    /\ sPc = "connecting"
    /\ \E metaOk \in BOOLEAN :
         IF metaOk
           THEN /\ SendRequest(HandshakeRequest(FileName, Len(sDisk), Tid))
                /\ sPc' = "awaitHandshakeAck"
                /\ lastOp' = [op |-> "ConnectionEstablished", id |-> Tid, result |-> "Ok"]
           ELSE /\ sPc' = "returnedErr"
                /\ UNCHANGED <<sent, net>>
                /\ lastOp' = [op |-> "ConnectionEstablished", id |-> Tid, result |-> "Err"]
    /\ UNCHANGED <<sFile, sDisk, sFileSize, sTid, sOffset, sChunkIndex, sObserved,
                   rImpl, rNode, rHandler, PENDING_FILES, downloads, respLog, resp>>
    /\ UNCHANGED <<domainVars, otherVars>>

\* start_temp_node_and_send_file, SwarmEvent::Behaviour(RequestResponse):
\* handle_req_resp_event returns the response and the loop matches on it.
\* openOk is the outcome of File::open and metadata at the top of send_file.
SenderHandleResponse ==
    /\ sPc = "awaitHandshakeAck"
    /\ \E r \in resp : \E openOk \in BOOLEAN :
         /\ resp' = resp \ {r}
         /\ sObserved' = sObserved \cup {r}
         /\ CASE r.type = "HandshakeResponse" /\ r.accepted /\ r.transfer_id # None ->
                   IF openOk
                     THEN /\ sPc' = "sending"
                          /\ sTid' = r.transfer_id
                          /\ sFileSize' = Len(sDisk)
                          /\ sOffset' = 0
                          /\ sChunkIndex' = 0
                          /\ UNCHANGED <<sent, net>>
                          /\ lastOp' = [op |-> "SenderHandleResponse", id |-> r.transfer_id, result |-> "Sending"]
                     ELSE /\ SendRequest(CancelTransfer(r.transfer_id))
                          /\ sPc' = "returnedErr"
                          /\ UNCHANGED <<sTid, sFileSize, sOffset, sChunkIndex>>
                          /\ lastOp' = [op |-> "SenderHandleResponse", id |-> r.transfer_id, result |-> "Err"]
              [] r.type = "HandshakeResponse" /\ ~(r.accepted /\ r.transfer_id # None) ->
                   /\ sPc' = "returnedErr"
                   /\ UNCHANGED <<sTid, sFileSize, sOffset, sChunkIndex, sent, net>>
                   /\ lastOp' = [op |-> "SenderHandleResponse", id |-> Tid, result |-> "Err"]
              [] r.type = "TransferComplete" ->
                   /\ sPc' = IF r.success THEN "returnedOk" ELSE "returnedErr"
                   /\ UNCHANGED <<sTid, sFileSize, sOffset, sChunkIndex, sent, net>>
                   /\ lastOp' = [op |-> "SenderHandleResponse", id |-> r.transfer_id,
                                 result |-> IF r.success THEN "Ok" ELSE "Err"]
              [] r.type = "ChunkResponse" ->
                   /\ UNCHANGED <<sPc, sTid, sFileSize, sOffset, sChunkIndex, sent, net>>
                   /\ lastOp' = [op |-> "SenderHandleResponse", id |-> r.transfer_id, result |-> "Ignored"]
    /\ UNCHANGED <<sFile, sDisk, rImpl, rNode, rHandler, PENDING_FILES, downloads, respLog>>
    /\ UNCHANGED <<domainVars, otherVars>>

\* send_file, one iteration of `while offset < file_size`: seek, read,
\* send_request, advance, yield_now.  read fills the CHUNK_SIZE buffer from
\* what the file holds now at the offset: at most what is there, possibly
\* fewer bytes (AsyncReadExt::read), and bytes beyond file_size when the
\* file has grown since the size was taken.  It returns 0 when the file has
\* been cut short to the offset or below: the loop is left and send_file
\* returns Ok(()) with the rest unsent.  seek or read may fail (readOk),
\* which makes send_file return Err: the caller sends CancelTransfer and
\* returns Err.
SendFileChunk ==
    /\ sPc = "sending"
    /\ sOffset < sFileSize
    /\ \E readOk \in BOOLEAN :
       \E n \in (IF Len(sDisk) <= sOffset THEN {0}
                 ELSE 1..Min(CHUNK_SIZE, Len(sDisk) - sOffset)) :
         IF ~readOk
           THEN /\ SendRequest(CancelTransfer(sTid))
                /\ sPc' = "returnedErr"
                /\ UNCHANGED <<sOffset, sChunkIndex>>
                /\ lastOp' = [op |-> "SendFileChunk", id |-> sTid, result |-> "Err"]
         ELSE IF n = 0
           THEN /\ sPc' = "returnedOk"
                /\ UNCHANGED <<sent, net, sOffset, sChunkIndex>>
                /\ lastOp' = [op |-> "SendFileChunk", id |-> sTid, result |-> "Ok(break)"]
         ELSE /\ SendRequest(FileChunk(sTid, sChunkIndex, TotalChunks(sFileSize),
                                       SubSeq(sDisk, sOffset + 1, sOffset + n),
                                       sOffset + n >= sFileSize))
              /\ sOffset' = sOffset + n
              /\ sChunkIndex' = sChunkIndex + 1
              /\ UNCHANGED sPc
              /\ lastOp' = [op |-> "SendFileChunk", id |-> sTid, result |-> "Ok"]
    /\ UNCHANGED <<sFile, sDisk, sFileSize, sTid, sObserved, rImpl, rNode, rHandler,
                   PENDING_FILES, downloads, respLog, resp>>
    /\ UNCHANGED <<domainVars, otherVars>>

\* send_file leaves the loop and returns Ok(()); start_temp_node_and_send_file
\* returns Ok(()) at once (network/mod.rs:611-615).
SendFileReturn ==
    /\ sPc = "sending"
    /\ ~(sOffset < sFileSize)
    /\ sPc' = "returnedOk"
    /\ lastOp' = [op |-> "SendFileReturn", id |-> sTid, result |-> "Ok"]
    /\ UNCHANGED <<sFile, sDisk, sFileSize, sTid, sOffset, sChunkIndex, sObserved, sent, net,
                   rImpl, rNode, rHandler, PENDING_FILES, downloads, respLog, resp>>
    /\ UNCHANGED <<domainVars, otherVars>>

\* The 60 s timeout arm of the select!.  The local transfer_id is never
\* assigned (it is `None` for the whole function), so no CancelTransfer is
\* sent.  The arm is only polled while the loop waits for an event.
SenderTimeout ==
    /\ sPc \in {"connecting", "awaitHandshakeAck"}
    /\ sPc' = "returnedErr"
    /\ lastOp' = [op |-> "SenderTimeout", id |-> Tid, result |-> "Err"]
    /\ UNCHANGED <<sFile, sDisk, sFileSize, sTid, sOffset, sChunkIndex, sObserved, sent, net,
                   rImpl, rNode, rHandler, PENDING_FILES, downloads, respLog, resp>>
    /\ UNCHANGED <<domainVars, otherVars>>

\* Another process appends to the file being sent or cuts it short, once,
\* at any time before the send operation has returned.  Byte k of the file
\* holds k whatever its length.
FileChanged ==
    /\ sPc \notin {"returnedOk", "returnedErr"}
    /\ sDisk = sFile
    /\ \E len \in 0..(MaxFileLen + MaxAppend) :
         /\ len # Len(sDisk)
         /\ sDisk' = FileOfSize(len)
         /\ lastOp' = [op |-> "FileChanged", id |-> Tid, result |-> "Ok"]
    /\ UNCHANGED <<sFile, sFileSize, sPc, sTid, sOffset, sChunkIndex, sObserved, sent, net,
                   rImpl, rNode, rHandler, PENDING_FILES, downloads, respLog, resp>>
    /\ UNCHANGED <<domainVars, otherVars>>

\* ----------------------------------------------------------- receiver
\* file.seek(SeekFrom::Start(offset)) followed by write_all(data) on a file
\* opened with create(true).write(true) and no truncate: bytes outside the
\* written range stay, a gap past the old end reads as zeros.  A write of no
\* bytes leaves the file as it is, wherever the position is.
WriteAt(content, offset, data) ==
    LET newLen == IF data = <<>> \/ Len(content) >= offset + Len(data)
                    THEN Len(content) ELSE offset + Len(data)
    IN [k \in 1..newLen |->
          IF k > offset /\ k <= offset + Len(data) THEN data[k - offset]
          ELSE IF k <= Len(content) THEN content[k]
          ELSE 0]

\* `chunk_index as u64 * CHUNK_SIZE as u64`: the product of two u64 values.
\* A product outside u64 panics in a build with overflow checks and wraps in
\* one without.
chunk_offset_overflows(chunk_index) == chunk_index * CHUNK_SIZE >= U64_MODULUS
chunk_offset(chunk_index) == (chunk_index * CHUNK_SIZE) % U64_MODULUS

\* SeekFrom::Start(offset) with an offset above i64::MAX is refused by the
\* operating system.
seek_refused(offset) == 2 * offset >= U64_MODULUS

\* swarm.behaviour_mut().<protocol>.send_response(channel, response) that
\* returned Ok
SendResponse(r) ==
    /\ respLog' = Append(respLog, r)
    /\ resp' = resp \cup {r}

\* send_response: Err when the channel to the peer is gone (sendOk)
TrySendResponse(sendOk, r) ==
    IF sendOk THEN SendResponse(r) ELSE UNCHANGED <<respLog, resp>>

\* protocol/mod.rs get_pending_filename
get_pending_filename(peer) ==
    IF peer \in DOMAIN PENDING_FILES THEN PENDING_FILES[peer] ELSE None

\* protocol/mod.rs store_pending_filename: HashMap::insert
store_pending_filename(peer, filename) ==
    [p \in (DOMAIN PENDING_FILES) \cup {peer} |->
        IF p = peer THEN filename ELSE PENDING_FILES[p]]

\* pending_files.remove(&peer)
remove_pending_filename(peer) ==
    [p \in (DOMAIN PENDING_FILES) \ {peer} |-> PENDING_FILES[p]]

\* OpenOptions::new().create(true).write(true).open(path) that returned Ok:
\* a missing file now exists, empty.
open_create(file_path) ==
    [f \in (DOMAIN downloads) \cup {file_path} |->
        IF f \in DOMAIN downloads THEN downloads[f] ELSE <<>>]

\* The FileChunk handler of handle_handshake_event is not running.  The
\* event loop awaits the handler of one request before it takes the next.
NoHandler == [pc |-> "idle", m |-> <<>>, filename |-> None]

\* The handler has passed an await and goes on to pc.
RecvGoto(pc) ==
    /\ rHandler' = [rHandler EXCEPT !.pc = pc]
    /\ lastOp' = [op |-> "RecvFileChunk", id |-> rHandler.m[1].transfer_id, result |-> pc]

\* The handler returns Ok(HandshakeResult::OtherEvent).
RecvReturn(result) ==
    /\ rHandler' = NoHandler
    /\ lastOp' = [op |-> "RecvFileChunk", id |-> rHandler.m[1].transfer_id, result |-> result]

\* ProtocolRequest::HandshakeRequest, in both handlers: always accepted, the
\* response echoes the transfer id.  handle_handshake_event records the
\* pending filename of the peer first and only warns when create_dir_all
\* fails; network::handle_req_resp_event returns the error of create_dir_all
\* (dirOk) before any response is made.  When send_response fails (sendOk)
\* both return Err and the request stays unanswered.
RecvHandshakeRequest ==
    /\ rNode # "panicked"
    /\ rHandler = NoHandler
    /\ \E m \in net : \E dirOk \in BOOLEAN : \E sendOk \in BOOLEAN :
         /\ m.type = "HandshakeRequest"
         /\ net' = net \ {m}
         /\ PENDING_FILES' = IF rImpl = "protocol"
                               THEN store_pending_filename(SenderPeer, m.filename)
                               ELSE PENDING_FILES
         /\ IF (rImpl = "network" /\ ~dirOk) \/ ~sendOk
              THEN /\ UNCHANGED <<respLog, resp>>
                   /\ lastOp' = [op |-> "RecvHandshakeRequest", id |-> m.transfer_id, result |-> "Err"]
              ELSE /\ SendResponse(HandshakeResponse(TRUE, None, m.transfer_id))
                   /\ lastOp' = [op |-> "RecvHandshakeRequest", id |-> m.transfer_id, result |-> "Accepted"]
    /\ UNCHANGED <<sFile, sDisk, sFileSize, sPc, sTid, sOffset, sChunkIndex, sObserved, sent,
                   rImpl, rNode, rHandler, downloads>>
    /\ UNCHANGED <<domainVars, otherVars>>

\* ProtocolRequest::FileChunk, up to the first await.
\*  handle_handshake_event: the pending filename of the peer is read under
\*  the lock, which is released at once; without one the handler returns
\*  and the channel is dropped without a response.
\*  handle_req_resp_event: ChunkResponse{success: true}, nothing is written;
\*  a failure of send_response is returned as Err.
RecvFileChunk ==
    /\ rNode # "panicked"
    /\ rHandler = NoHandler
    /\ \E m \in net : \E sendOk \in BOOLEAN :
         /\ m.type = "FileChunk"
         /\ net' = net \ {m}
         /\ IF rImpl = "protocol"
              THEN LET filename == get_pending_filename(SenderPeer)
                   IN /\ UNCHANGED <<respLog, resp>>
                      /\ IF filename = None
                           THEN /\ UNCHANGED rHandler
                                /\ lastOp' = [op |-> "RecvFileChunk", id |-> m.transfer_id,
                                              result |-> "NoResponse"]
                           ELSE /\ rHandler' = [pc |-> "open", m |-> <<m>>,
                                                filename |-> filename]
                                /\ lastOp' = [op |-> "RecvFileChunk", id |-> m.transfer_id,
                                              result |-> "open"]
              ELSE /\ TrySendResponse(sendOk,
                          ChunkResponse(m.transfer_id, m.chunk_index, TRUE, None))
                   /\ UNCHANGED rHandler
                   /\ lastOp' = [op |-> "RecvFileChunk", id |-> m.transfer_id,
                                 result |-> IF sendOk THEN "Acked" ELSE "Err"]
    /\ UNCHANGED <<sFile, sDisk, sFileSize, sPc, sTid, sOffset, sChunkIndex, sObserved, sent,
                   rImpl, rNode, PENDING_FILES, downloads>>
    /\ UNCHANGED <<domainVars, otherVars>>

\* handle_handshake_event, FileChunk: OpenOptions .. open(&file_path).await
\* (openOk), then the offset chunk_index * CHUNK_SIZE is computed.  When
\* open fails the handler returns without a response; when the product
\* overflows in a build with overflow checks the handler panics, with the
\* file created.
RecvFileChunk_open ==
    /\ rHandler.pc = "open"
    /\ \E openOk \in BOOLEAN :
         LET file_path == format_path(DownloadDir, rHandler.filename)
         IN IF ~openOk
              THEN /\ RecvReturn("NoResponse")
                   /\ UNCHANGED <<downloads, rNode>>
            ELSE IF chunk_offset_overflows(rHandler.m[1].chunk_index) /\ rNode = "debug"
              THEN /\ downloads' = open_create(file_path)
                   /\ rNode' = "panicked"
                   /\ RecvReturn("Panicked")
            ELSE /\ downloads' = open_create(file_path)
                 /\ UNCHANGED rNode
                 /\ RecvGoto("seek")
    /\ UNCHANGED <<sFile, sDisk, sFileSize, sPc, sTid, sOffset, sChunkIndex, sObserved, sent, net,
                   rImpl, PENDING_FILES, respLog, resp>>
    /\ UNCHANGED <<domainVars, otherVars>>

\* file.seek(SeekFrom::Start(offset)).await: refused for an offset above
\* i64::MAX, or failing otherwise (seekOk); the handler then returns without
\* a response.
RecvFileChunk_seek ==
    /\ rHandler.pc = "seek"
    /\ \E seekOk \in BOOLEAN :
         IF seek_refused(chunk_offset(rHandler.m[1].chunk_index)) \/ ~seekOk
           THEN RecvReturn("NoResponse")
           ELSE RecvGoto("write_all")
    /\ UNCHANGED <<sFile, sDisk, sFileSize, sPc, sTid, sOffset, sChunkIndex, sObserved, sent, net,
                   rImpl, rNode, PENDING_FILES, downloads, respLog, resp>>
    /\ UNCHANGED <<domainVars, otherVars>>

\* file.write_all(&processed_data).await: the data is copied into the
\* buffer of the tokio file and the write handed to the blocking pool; on an
\* error (writeOk) the handler returns without a response.
RecvFileChunk_write_all ==
    /\ rHandler.pc = "write_all"
    /\ \E writeOk \in BOOLEAN :
         IF writeOk THEN RecvGoto("flush") ELSE RecvReturn("NoResponse")
    /\ UNCHANGED <<sFile, sDisk, sFileSize, sPc, sTid, sOffset, sChunkIndex, sObserved, sent, net,
                   rImpl, rNode, PENDING_FILES, downloads, respLog, resp>>
    /\ UNCHANGED <<domainVars, otherVars>>

\* file.flush().await and the rest of the handler.  flush waits for the
\* write handed over: nwritten bytes have reached the file, all of them or
\* only the first few (or none) when the write failed, which is only warned
\* about.  The handler goes on as after a good write: it removes the
\* pending filename on is_last and sends ChunkResponse{success: true}; a
\* failure of send_response is only printed.
RecvFileChunk_flush ==
    /\ rHandler.pc = "flush"
    /\ \E nwritten \in 0..Len(rHandler.m[1].data) : \E sendOk \in BOOLEAN :
         LET m == rHandler.m[1]
             file_path == format_path(DownloadDir, rHandler.filename)
             offset == chunk_offset(m.chunk_index)
         IN /\ downloads' =
                  [f \in (DOMAIN downloads) \cup {file_path} |->
                      IF f = file_path
                        THEN WriteAt(open_create(file_path)[f], offset,
                                     SubSeq(m.data, 1, nwritten))
                        ELSE downloads[f]]
            /\ PENDING_FILES' = IF m.is_last
                                  THEN remove_pending_filename(SenderPeer)
                                  ELSE PENDING_FILES
            /\ TrySendResponse(sendOk,
                   ChunkResponse(m.transfer_id, m.chunk_index, TRUE, None))
            /\ RecvReturn(IF nwritten = Len(m.data) THEN "Written"
                          ELSE IF nwritten = 0 THEN "NotWritten"
                          ELSE "PartlyWritten")
    /\ UNCHANGED <<sFile, sDisk, sFileSize, sPc, sTid, sOffset, sChunkIndex, sObserved, sent, net,
                   rImpl, rNode>>
    /\ UNCHANGED <<domainVars, otherVars>>

\* ProtocolRequest::CancelTransfer, in both handlers: TransferComplete with
\* success = false.  handle_handshake_event also forgets the pending
\* filename; the partly written file stays.  A failure of send_response is
\* printed by handle_handshake_event and returned as Err by
\* handle_req_resp_event.
RecvCancelTransfer ==
    /\ rNode # "panicked"
    /\ rHandler = NoHandler
    /\ \E m \in net : \E sendOk \in BOOLEAN :
         /\ m.type = "CancelTransfer"
         /\ net' = net \ {m}
         /\ PENDING_FILES' = IF rImpl = "protocol"
                               THEN remove_pending_filename(SenderPeer)
                               ELSE PENDING_FILES
         /\ TrySendResponse(sendOk,
                TransferComplete(m.transfer_id, FALSE, "Transfer cancelled by sender"))
         /\ lastOp' = [op |-> "RecvCancelTransfer", id |-> m.transfer_id,
                       result |-> IF sendOk \/ rImpl = "protocol" THEN "Cancelled" ELSE "Err"]
    /\ UNCHANGED <<sFile, sDisk, sFileSize, sPc, sTid, sOffset, sChunkIndex, sObserved, sent,
                   rImpl, rNode, rHandler, downloads>>
    /\ UNCHANGED <<domainVars, otherVars>>

\* protocol::get_and_remove_pending_filename, a public function of the
\* crate: pending_files.remove(peer_id), returning what was there.  Any task
\* may call it at any time; a handler that panicked did so without holding
\* the lock, so the map stays usable by the tasks that go on running.
get_and_remove_pending_filename ==
    /\ \E peer_id \in {SenderPeer} :
         /\ lastOp' = [op |-> "get_and_remove_pending_filename", id |-> None,
                       result |-> get_pending_filename(peer_id)]
         /\ PENDING_FILES' = remove_pending_filename(peer_id)
    /\ UNCHANGED <<sFile, sDisk, sFileSize, sPc, sTid, sOffset, sChunkIndex, sObserved, sent, net,
                   rImpl, rNode, rHandler, downloads, respLog, resp>>
    /\ UNCHANGED <<domainVars, otherVars>>

\* ------------------------------------------------------ wire specification
NoOp == [op |-> "none", id |-> None, result |-> None]

InitDomainVars ==
    /\ transfers = <<>>
    /\ files = {}
    /\ peers = <<>>
    /\ events = <<>>

\* FileTransferManager::new: active_transfers = HashMap::new()
InitFtVars == mgr_active_transfers = <<>>

\* run_swarm_task: connected_peers = HashMap::new()
InitNetVars ==
    /\ connected_peers = <<>>
    /\ open_connections = [p \in PeerIds |-> 0]

\* No caller of the repository has started.
InitRepoVars ==
    /\ repoImpl = "memory"
    /\ taskPc = <<>>
    /\ taskLocal = <<>>

\* Tasks that call publish, and the observers (EventHandler objects).
Publishers == {"p1", "p2"}
Handlers == {"h1", "h2"}
Buses == {"memory", "channel"}
\* #[tokio::main] and Builder::new_multi_thread; #[tokio::test] and
\* Builder::new_current_thread.
Runtimes == {"multi_thread", "current_thread"}

\* A publishing task outside publish.
IdlePublisher(n) ==
    [pc |-> "idle", n |-> n, bus |-> None, event |-> <<>>, snapshot |-> <<>>,
     polled |-> {}, failed |-> {}]

\* start_processing has not been called.
NoConsumer ==
    [handlers |-> <<>>, pc |-> "recv", event |-> <<>>, snapshot |-> <<>>,
     polled |-> {}]

\* InMemoryEventPublisher::new and ChannelEventPublisher::new: empty handler
\* lists, an empty channel, the receiver in the hands of the caller.
InitBusFields ==
    /\ mem_handlers = <<>>
    /\ chan_handlers = <<>>
    /\ event_tx = <<>>
    /\ event_rx = "held"
    /\ cons = NoConsumer
    /\ pubs = [p \in Publishers |-> IdlePublisher(0)]
    /\ bus_received = [b \in Buses |-> [h \in Handlers |-> <<>>]]
    /\ returned = {}

\* main.rs constructs an InMemoryEventPublisher.
InitBusVars ==
    /\ bus_kind = "memory"
    /\ runtime = "multi_thread"
    /\ InitBusFields

\* No read has happened on the substream.
NoRead ==
    [op |-> "none", input |-> <<>>, ok |-> FALSE, msg |-> <<>>, err |-> "",
     allocated |-> 0, payload_read |-> 0]

\* A fresh substream: nothing written, nothing read.
InitCodecVars ==
    /\ io = <<>>
    /\ written = <<>>
    /\ rd = NoRead

NoCall == [op |-> "none", key |-> <<>>, input |-> <<>>, ok |-> FALSE,
           out |-> <<>>, err |-> ""]

\* Neither encrypt nor decrypt has been called.
InitCryptoVars ==
    /\ enc = NoCall
    /\ dec = NoCall

\* LibP2pNetworkService::new has spawned run_swarm_task: nothing is queued,
\* the swarm does not listen yet and no bootstrap has been attempted.
InitSwarmFields ==
    /\ swarm_task = "running"
    /\ command_rx = <<>>
    /\ submitted = <<>>
    /\ handled = <<>>
    /\ listening = FALSE
    /\ listen_events = 0
    /\ bootstrap_attempted = FALSE
    /\ bootstrap_log = <<>>

InitSwarmVars == InitSwarmFields

\* Both maps start as HashMap::new().
InitDiscoveryVars ==
    /\ DISCOVERED_PEERS = <<>>
    /\ discovered_peers = <<>>
    /\ reported = [m \in {"global", "service"} |-> [p \in PeerIds |-> {}]]

\* No handler has been given an event.
InitServiceVars == handler_saw = <<>> /\ cleared_events = {}

\* No chunk has been accepted.
InitManagerVars ==
    /\ mgr_chunks = [t \in {"T1", "T2"} |-> <<>>]
    /\ blocking_pool = {}
    /\ last_write_err = {}

InitLateVars ==
    /\ InitSwarmVars
    /\ InitDiscoveryVars
    /\ InitServiceVars
    /\ InitManagerVars

InitExtVars ==
    /\ InitBusVars
    /\ InitCodecVars
    /\ InitCryptoVars
    /\ InitLateVars

InitWire ==
    /\ sFile \in {FileOfSize(n) : n \in 0..MaxFileLen}
    /\ sDisk = sFile
    /\ sFileSize = 0
    /\ sPc = "connecting"
    /\ sTid = None
    /\ sOffset = 0
    /\ sChunkIndex = 0
    /\ sObserved = {}
    /\ sent = <<>>
    /\ net = {}
    /\ rImpl \in {"protocol", "network"}
    /\ rNode \in {"debug", "release"}
    /\ rHandler = NoHandler
    /\ PENDING_FILES = <<>>
    /\ downloads = <<>>
    /\ respLog = <<>>
    /\ resp = {}
    /\ InitDomainVars
    /\ InitFtVars
    /\ InitNetVars
    /\ InitExtVars
    /\ InitRepoVars
    /\ lastOp = NoOp

NextWire ==
    \/ ConnectionEstablished
    \/ SenderHandleResponse
    \/ SendFileChunk
    \/ SendFileReturn
    \/ SenderTimeout
    \/ FileChanged
    \/ RecvHandshakeRequest
    \/ RecvFileChunk
    \/ RecvFileChunk_open
    \/ RecvFileChunk_seek
    \/ RecvFileChunk_write_all
    \/ RecvFileChunk_flush
    \/ RecvCancelTransfer

SpecWire == InitWire /\ [][NextWire]_vars

\* Both nodes keep running: the sender's event loop and send_file, and the
\* receiver's request handler, take their next step whenever they can.
SpecWireFair ==
    /\ InitWire
    /\ [][NextWire]_vars
    /\ WF_vars(ConnectionEstablished)
    /\ WF_vars(SenderHandleResponse)
    /\ WF_vars(SendFileChunk)
    /\ WF_vars(SendFileReturn)
    /\ WF_vars(RecvHandshakeRequest)
    /\ WF_vars(RecvFileChunk)
    /\ WF_vars(RecvFileChunk_open)
    /\ WF_vars(RecvFileChunk_seek)
    /\ WF_vars(RecvFileChunk_write_all)
    /\ WF_vars(RecvFileChunk_flush)
    /\ WF_vars(RecvCancelTransfer)

\* ============================================================ domain layer
\* core/domain.rs TransferStatus.  Failed carries a reason string, which no
\* operation of the domain service reads; it is left out.
Statuses == {"Pending", "InProgress", "Completed", "Failed", "Cancelled"}

\* Completed, Failed and Cancelled are the terminal statuses.
Terminal(status) == status \in {"Completed", "Failed", "Cancelled"}


\* core/domain.rs TransferProgress::new
TransferProgress_new(total_bytes, total_chunks) ==
    [bytes_transferred |-> 0, total_bytes |-> total_bytes,
     chunks_transferred |-> 0, total_chunks |-> total_chunks]

\* core/domain.rs TransferProgress::update: both counters are overwritten
\* with the arguments.
TransferProgress_update(progress, bytes_transferred, chunks_transferred) ==
    [progress EXCEPT !.bytes_transferred = bytes_transferred,
                     !.chunks_transferred = chunks_transferred]

\* core/domain.rs TransferProgress::is_complete
is_complete(progress) ==
    /\ progress.bytes_transferred >= progress.total_bytes
    /\ progress.chunks_transferred >= progress.total_chunks

\* core/services.rs: file_size.div_ceil(CHUNK_SIZE)
div_ceil(a, b) == (a + b - 1) \div b

\* InMemoryTransferRepository::save_transfer: HashMap::insert
save_transfer(id, transfer) ==
    [t \in (DOMAIN transfers) \cup {id} |->
        IF t = id THEN transfer ELSE transfers[t]]

\* InMemoryPeerRepository::save_peer: HashMap::insert
save_peer(id, peer) ==
    [p \in (DOMAIN peers) \cup {id} |-> IF p = id THEN peer ELSE peers[p]]

\* InMemoryEventPublisher::publish, first await: event_log.push(event)
publish(event) == Append(events, event)

Op(op, id, result) == [op |-> op, id |-> id, result |-> result]

\* ------------------------------------------ calls of the domain services
\* core/services.rs.  Each method of the services is a sequence of awaits on
\* the repositories and on the event publisher; the lock of a repository is
\* held for one read or one write only, so calls made from different tasks
\* (and from event handlers) interleave at those awaits.  One call of each
\* method is in flight at a time; each call holds its own copy of the record
\* it found (let mut transfer).
DomainTasks == {"register", "connection", "initiate", "accept", "progress", "cancel"}
PublishingTasks == {"register", "connection", "initiate", "progress"}
ServiceTasks == {"initiate", "accept", "progress", "cancel"}

\* The calls a caller is busy with: those in flight and those whose result
\* the caller has not gone on from.  Where the four methods of
\* TransferDomainService are called from a task each, all four can be in
\* flight; otherwise MaxCallers tasks make the calls.
InFlight == Cardinality({t \in DOMAIN taskPc : taskPc[t] # "idle"})
MayCall(t) ==
    /\ taskPc[t] = "idle"
    /\ InFlight < (IF DOMAIN taskPc = ServiceTasks THEN Cardinality(ServiceTasks)
                                                  ELSE MaxCallers)

NoLocal == [id |-> 0, transfer |-> <<>>, event |-> <<>>, result |-> ""]

ServiceOpName(t) ==
    CASE t = "register" -> "register_discovered_peer"
      [] t = "connection" -> "update_connection_status"
      [] t = "initiate" -> "initiate_transfer"
      [] t = "accept" -> "accept_transfer"
      [] t = "progress" -> "update_progress"
      [] t = "cancel" -> "cancel_transfer"

\* TransferRepository::find_transfer_by_id: Some(clone) or None
find_transfer_by_id(id) ==
    IF id \in DOMAIN transfers THEN <<transfers[id]>> ELSE <<>>

\* The results a write to a repository can give: the in-memory repositories
\* always return Ok, the sled ones pass I/O errors on.
SaveResults == IF repoImpl = "sled" THEN {"Ok", "Err"} ELSE {"Ok"}

\* The results a read of a repository can give: the sled repositories pass
\* on the error of the store and of the blocking task (.await??), the
\* in-memory ones always return Ok.
ReadResults == IF repoImpl = "sled" THEN {"Ok", "Err"} ELSE {"Ok"}

\* What a handler sees when it is given the event and looks the transfer up.
Observation(event) ==
    [type |-> event.type, id |-> event.id,
     stored |-> IF event.id \in DOMAIN transfers
                  THEN <<transfers[event.id].status>> ELSE <<>>]

\* FileId::new() in FileService::add_file: ids no transfer's file has.
AddedFileIds == (MaxTransfers + 1)..(MaxTransfers + MaxAddedFiles)

serviceRest == <<wireVars, ftVars, netVars, repoImpl, bus_kind, runtime,
                 mem_handlers, chan_handlers, event_rx, pubs,
                 bus_received, returned, codecVars, cryptoVars, swarmVars,
                 discoveryVars, managerVars>>
serviceOther == <<serviceRest, cons>>

\* The call of task t returns result.
Return(t, id, result) ==
    /\ taskPc' = [taskPc EXCEPT ![t] = "done"]
    /\ taskLocal' = [taskLocal EXCEPT ![t] = [NoLocal EXCEPT !.id = id, !.result = result]]
    /\ lastOp' = Op(ServiceOpName(t), id, result)

\* The call of task t has passed the await named and goes on to pc with the
\* given locals.
Goto(t, pc, id, transfer, event, await) ==
    /\ taskPc' = [taskPc EXCEPT ![t] = pc]
    /\ taskLocal' = [taskLocal EXCEPT ![t] =
                        [id |-> id, transfer |-> transfer, event |-> event, result |-> ""]]
    /\ lastOp' = Op("await", id, await)

\* PeerDomainService::register_discovered_peer:
\* self.peer_repo.save_peer(&peer).await?
register_save_peer ==
    /\ MayCall("register")
    /\ Len(events) < MaxEvents
    /\ \E peer_id \in PeerIds : \E addresses \in {<<>>, <<"addr1">>} :
       \E result \in SaveResults :
         IF result = "Ok"
           THEN /\ peers' = save_peer(peer_id, [addresses |-> addresses, is_connected |-> FALSE])
                /\ Goto("register", "publish", peer_id, <<>>,
                        <<[type |-> "PeerDiscovered", id |-> peer_id]>>, "save_peer")
           ELSE /\ UNCHANGED peers
                /\ Return("register", peer_id, "Err: save_peer")
    /\ UNCHANGED <<transfers, files, events, event_tx, handler_saw, cleared_events>>
    /\ UNCHANGED serviceOther

\* PeerDomainService::update_connection_status:
\* update_peer_connection_status(peer_id, connected).await? (a no-op on an
\* unknown id); the event is built in both cases.
connection_update ==
    /\ MayCall("connection")
    /\ Len(events) < MaxEvents
    /\ \E peer_id \in PeerIds : \E connected \in BOOLEAN : \E result \in SaveResults :
         IF result = "Ok"
           THEN /\ peers' = IF peer_id \in DOMAIN peers
                              THEN [peers EXCEPT ![peer_id].is_connected = connected]
                              ELSE peers
                /\ Goto("connection", "publish", peer_id, <<>>,
                        <<[type |-> IF connected THEN "PeerConnected"
                                                 ELSE "PeerDisconnected",
                           id |-> peer_id]>>, "update_peer_connection_status")
           ELSE /\ UNCHANGED peers
                /\ Return("connection", peer_id, "Err: update_peer_connection_status")
    /\ UNCHANGED <<transfers, files, events, event_tx, handler_saw, cleared_events>>
    /\ UNCHANGED serviceOther

\* TransferDomainService::initiate_transfer: find_peer_by_id and the
\* is_connected check.  TransferId::new() is fresh: the n-th transfer created
\* gets the id n, and so does its file.
initiate_find_peer ==
    /\ MayCall("initiate")
    /\ Cardinality(DOMAIN transfers) < MaxTransfers
    /\ Len(events) < MaxEvents
    /\ \E receiver \in PeerIds : \E result \in ReadResults :
         LET id == Cardinality(DOMAIN transfers) + 1
         IN IF result = "Err"
              THEN Return("initiate", id, "Err: find_peer_by_id")
            ELSE IF receiver \notin DOMAIN peers
              THEN Return("initiate", id, "Err: Receiver peer not found")
            ELSE IF ~peers[receiver].is_connected
              THEN Return("initiate", id, "Err: Receiver peer is not connected")
            ELSE Goto("initiate", "metadata", id, <<[receiver |-> receiver]>>, <<>>,
                      "find_peer_by_id")
    /\ UNCHANGED <<transfers, files, peers, events, event_tx, handler_saw, cleared_events>>
    /\ UNCHANGED serviceOther

\* initiate_transfer: get_file_metadata, calculate_file_hash (metaOk is
\* their outcome, file_size the size reported), and the File and Transfer
\* entities built from them.
initiate_metadata ==
    /\ taskPc["initiate"] = "metadata"
    /\ \E metaOk \in BOOLEAN, file_size \in 0..MaxFileSize :
         LET id == taskLocal["initiate"].id
             receiver == taskLocal["initiate"].transfer[1].receiver
         IN IF ~metaOk
              THEN Return("initiate", id, "Err: file")
              ELSE Goto("initiate", "save_file", id,
                        <<[file |-> id, receiver |-> receiver, status |-> "Pending",
                           progress |-> TransferProgress_new(file_size,
                                            div_ceil(file_size, CHUNK_SIZE))]>>,
                        <<>>, "get_file_metadata")
    /\ UNCHANGED <<transfers, files, peers, events, event_tx, handler_saw, cleared_events>>
    /\ UNCHANGED serviceOther

\* initiate_transfer: self.file_repo.save_file(&file).await?
initiate_save_file ==
    /\ taskPc["initiate"] = "save_file"
    /\ \E result \in SaveResults :
         LET id == taskLocal["initiate"].id
         IN IF result = "Ok"
              THEN /\ files' = files \cup {id}
                   /\ Goto("initiate", "save_transfer", id,
                           taskLocal["initiate"].transfer, <<>>, "save_file")
              ELSE /\ UNCHANGED files
                   /\ Return("initiate", id, "Err: save_file")
    /\ UNCHANGED <<transfers, peers, events, event_tx, handler_saw, cleared_events>>
    /\ UNCHANGED serviceOther

\* initiate_transfer: self.transfer_repo.save_transfer(&transfer).await?
initiate_save_transfer ==
    /\ taskPc["initiate"] = "save_transfer"
    /\ \E result \in SaveResults :
         LET id == taskLocal["initiate"].id
         IN IF result = "Ok"
              THEN /\ transfers' = save_transfer(id, taskLocal["initiate"].transfer[1])
                   /\ Goto("initiate", "publish", id, taskLocal["initiate"].transfer,
                           <<[type |-> "TransferStarted", id |-> id]>>, "save_transfer")
              ELSE /\ UNCHANGED transfers
                   /\ Return("initiate", id, "Err: save_transfer")
    /\ UNCHANGED <<files, peers, events, event_tx, handler_saw, cleared_events>>
    /\ UNCHANGED serviceOther

\* TransferDomainService::accept_transfer: find_transfer_by_id and the match
\* on the status.
accept_find ==
    /\ MayCall("accept")
    /\ \E id \in TransferIds : \E result \in ReadResults :
       LET found == find_transfer_by_id(id) IN
       IF result = "Err"
         THEN Return("accept", id, "Err: find_transfer_by_id")
       ELSE IF found = <<>>
         THEN Return("accept", id, "Err: Transfer not found")
       ELSE IF found[1].status = "Pending"
         THEN Goto("accept", "save", id, <<[found[1] EXCEPT !.status = "InProgress"]>>,
                   <<>>, "find_transfer_by_id")
       ELSE Return("accept", id, "Err: Transfer is not in pending state")
    /\ UNCHANGED <<transfers, files, peers, events, event_tx, handler_saw, cleared_events>>
    /\ UNCHANGED serviceOther

\* TransferDomainService::update_progress: find_transfer_by_id,
\* TransferProgress::update and the is_complete branch up to the call of
\* publish: either Completed and a TransferCompleted event or a
\* TransferProgress event.
progress_find ==
    /\ MayCall("progress")
    /\ Len(events) < MaxEvents
    /\ \E id \in TransferIds :
       \E bytes_transferred \in 0..MaxProgress, chunks_transferred \in 0..MaxProgress :
       \E result \in ReadResults :
       LET found == find_transfer_by_id(id) IN
       IF result = "Err"
         THEN Return("progress", id, "Err: find_transfer_by_id")
       ELSE IF found = <<>>
         THEN Return("progress", id, "Err: Transfer not found")
         ELSE LET progress == TransferProgress_update(found[1].progress,
                                  bytes_transferred, chunks_transferred)
              IN IF is_complete(progress)
                   THEN Goto("progress", "publish", id,
                             <<[found[1] EXCEPT !.progress = progress,
                                                !.status = "Completed"]>>,
                             <<[type |-> "TransferCompleted", id |-> id]>>,
                             "find_transfer_by_id")
                   ELSE Goto("progress", "publish", id,
                             <<[found[1] EXCEPT !.progress = progress]>>,
                             <<[type |-> "TransferProgress", id |-> id]>>,
                             "find_transfer_by_id")
    /\ UNCHANGED <<transfers, files, peers, events, event_tx, handler_saw, cleared_events>>
    /\ UNCHANGED serviceOther

\* TransferDomainService::cancel_transfer (called by CancelTransferUseCase):
\* find_transfer_by_id and the match on the status.  Only Completed is
\* refused; nothing is published and nothing is sent to the remote peer.
cancel_find ==
    /\ MayCall("cancel")
    /\ \E id \in TransferIds : \E result \in ReadResults :
       LET found == find_transfer_by_id(id) IN
       IF result = "Err"
         THEN Return("cancel", id, "Err: find_transfer_by_id")
       ELSE IF found = <<>>
         THEN Return("cancel", id, "Err: Transfer not found")
       ELSE IF found[1].status = "Completed"
         THEN Return("cancel", id, "Err: Cannot cancel completed transfer")
       ELSE Goto("cancel", "save", id, <<[found[1] EXCEPT !.status = "Cancelled"]>>,
                 <<>>, "find_transfer_by_id")
    /\ UNCHANGED <<transfers, files, peers, events, event_tx, handler_saw, cleared_events>>
    /\ UNCHANGED serviceOther

\* publish has returned Ok: update_progress goes on to save_transfer, the
\* other methods return Ok.
AfterPublish(t) ==
    IF t = "progress"
      THEN Goto(t, "save", taskLocal[t].id, taskLocal[t].transfer, taskLocal[t].event,
                "publish")
      ELSE Return(t, taskLocal[t].id, "Ok")

\* self.event_publisher.publish(event).await?.
\* InMemoryEventPublisher::publish pushes the event onto its log and, with
\* handlers subscribed, awaits them before it returns Ok;
\* ChannelEventPublisher::publish sends it on the channel and fails when
\* the receiver is gone.
Service_publish ==
    /\ \E t \in PublishingTasks \cap DOMAIN taskPc :
         /\ taskPc[t] = "publish"
         /\ LET event == taskLocal[t].event[1]
            IN IF bus_kind = "memory"
                 THEN /\ events' = publish(event)
                      /\ UNCHANGED event_tx
                      /\ IF mem_handlers = <<>>
                           THEN AfterPublish(t)
                           ELSE Goto(t, "handle_event", taskLocal[t].id,
                                     taskLocal[t].transfer, taskLocal[t].event,
                                     "event_log.push")
               ELSE IF event_rx = "dropped"
                 THEN /\ UNCHANGED <<events, event_tx>>
                      /\ Return(t, taskLocal[t].id, "Err: Failed to publish event")
               ELSE /\ event_tx' = Append(event_tx, event)
                    /\ UNCHANGED events
                    /\ AfterPublish(t)
    /\ UNCHANGED <<transfers, files, peers, handler_saw, cleared_events>>
    /\ UNCHANGED serviceOther

\* InMemoryEventPublisher::publish, join_all over the handlers: each is
\* given the event; what they return is only logged.
Service_handle_event ==
    /\ \E t \in PublishingTasks \cap DOMAIN taskPc :
         /\ taskPc[t] = "handle_event"
         /\ handler_saw' = Append(handler_saw, Observation(taskLocal[t].event[1]))
         /\ AfterPublish(t)
    /\ UNCHANGED <<transfers, files, peers, events, event_tx, cleared_events>>
    /\ UNCHANGED serviceOther

\* self.transfer_repo.save_transfer(&transfer).await? followed by Ok(()) in
\* accept_transfer, update_progress and cancel_transfer: the call's copy of
\* the record replaces the stored one.
Service_save ==
    /\ \E t \in {"accept", "progress", "cancel"} :
         /\ taskPc[t] = "save"
         /\ \E result \in SaveResults :
              IF result = "Ok"
                THEN /\ transfers' = save_transfer(taskLocal[t].id, taskLocal[t].transfer[1])
                     /\ Return(t, taskLocal[t].id, "Ok")
                ELSE /\ UNCHANGED transfers
                     /\ Return(t, taskLocal[t].id, "Err: save_transfer")
    /\ UNCHANGED <<files, peers, events, event_tx, handler_saw, cleared_events>>
    /\ UNCHANGED serviceOther

\* The caller of a method that has returned goes on to its next call.
Service_next_call ==
    /\ \E t \in DOMAIN taskPc :
         /\ taskPc[t] = "done"
         /\ taskPc' = [taskPc EXCEPT ![t] = "idle"]
         /\ taskLocal' = [taskLocal EXCEPT ![t] = NoLocal]
         /\ lastOp' = Op("call", 0, ServiceOpName(t))
    /\ UNCHANGED <<transfers, files, peers, events, event_tx, handler_saw, cleared_events>>
    /\ UNCHANGED serviceOther

domainOther == <<wireVars, otherVars>>

\* InMemoryTransferRepository::update_transfer_status: the status is stored
\* as given; a missing id is a no-op.
update_transfer_status ==
    /\ \E id \in TransferIds : \E status \in Statuses :
         /\ transfers' = IF id \in DOMAIN transfers
                           THEN [transfers EXCEPT ![id].status = status]
                           ELSE transfers
         /\ lastOp' = Op("update_transfer_status", id, "Ok")
    /\ UNCHANGED <<files, peers, events>>
    /\ UNCHANGED domainOther

\* FileDomainService::add_file: file_service.add_file(path).await? (addOk is
\* its outcome), then file_repo.save_file(&file).await?
add_file ==
    /\ \E id \in AddedFileIds \ files : \E addOk \in BOOLEAN : \E result \in SaveResults :
         IF ~addOk
           THEN /\ UNCHANGED files
                /\ lastOp' = Op("add_file", id, "Err: file")
         ELSE IF result = "Ok"
           THEN /\ files' = files \cup {id}
                /\ lastOp' = Op("add_file", id, "Ok")
         ELSE /\ UNCHANGED files
              /\ lastOp' = Op("add_file", id, "Err: save_file")
    /\ UNCHANGED <<transfers, peers, events>>
    /\ UNCHANGED domainOther

\* FileRepository::delete_file: files.remove(id), Ok whether the id was
\* there or not; the sled repository passes an I/O error on.
delete_file ==
    /\ \E id \in TransferIds \cup AddedFileIds : \E result \in SaveResults :
         /\ files' = IF result = "Ok" THEN files \ {id} ELSE files
         /\ lastOp' = Op("delete_file", id, result)
    /\ UNCHANGED <<transfers, peers, events>>
    /\ UNCHANGED domainOther

\* The services over the in-memory repositories and the in-memory event
\* log, as main.rs builds them: no handler is subscribed and no call is in
\* flight.
InitDomain ==
    /\ sFile = <<>>
    /\ sDisk = <<>>
    /\ sFileSize = 0
    /\ sPc = "connecting"
    /\ sTid = None
    /\ sOffset = 0
    /\ sChunkIndex = 0
    /\ sObserved = {}
    /\ sent = <<>>
    /\ net = {}
    /\ rImpl = "protocol"
    /\ rNode = "release"
    /\ rHandler = NoHandler
    /\ PENDING_FILES = <<>>
    /\ downloads = <<>>
    /\ respLog = <<>>
    /\ resp = {}
    /\ InitDomainVars
    /\ InitFtVars
    /\ InitNetVars
    /\ InitExtVars
    /\ repoImpl = "memory"
    /\ taskPc = [t \in DomainTasks |-> "idle"]
    /\ taskLocal = [t \in DomainTasks |-> NoLocal]
    /\ lastOp = NoOp

NextDomain ==
    \/ register_save_peer
    \/ connection_update
    \/ initiate_find_peer
    \/ initiate_metadata
    \/ initiate_save_file
    \/ initiate_save_transfer
    \/ accept_find
    \/ progress_find
    \/ cancel_find
    \/ Service_publish
    \/ Service_save
    \/ Service_next_call
    \/ update_transfer_status

SpecDomain == InitDomain /\ [][NextDomain]_vars

\* ------------------------------------- receiving node, any remote peer
\* The receiving node alone: the remote peer sends any requests in any
\* order, at most MaxRequests of them, and the node's request handler
\* (either of the two) answers them.
OtherTid == "T2"

\* The chunk indexes a peer may send beyond the first two: the first whose
\* offset seek refuses and the first whose offset does not fit u64.
HugeChunkIndexes ==
    {div_ceil(U64_MODULUS, 2 * CHUNK_SIZE), div_ceil(U64_MODULUS, CHUNK_SIZE)}

PeerRequests ==
    {HandshakeRequest(f, 1, t) : f \in FileNames, t \in {Tid, OtherTid}}
    \cup {FileChunk(t, i, 1, <<7, 8>>, l) :
             t \in {Tid, OtherTid}, i \in 0..1, l \in BOOLEAN}
    \cup {FileChunk(Tid, i, 1, <<7>>, FALSE) : i \in HugeChunkIndexes}
    \cup {CancelTransfer(t) : t \in {Tid, OtherTid}}

\* A request of the remote peer reaches the node
\* (request_handler::Event::Message with Message::Request).
PeerSendsRequest ==
    /\ Len(sent) < MaxRequests
    /\ \E m \in PeerRequests :
         /\ m \notin net
         /\ SendRequest(m)
         /\ lastOp' = [op |-> "PeerSendsRequest", id |-> m.transfer_id, result |-> "Sent"]
    /\ UNCHANGED <<sFile, sDisk, sFileSize, sPc, sTid, sOffset, sChunkIndex, sObserved,
                   rImpl, rNode, rHandler, PENDING_FILES, downloads, respLog, resp>>
    /\ UNCHANGED <<domainVars, otherVars>>

InitRecv ==
    /\ sFile = <<>>
    /\ sDisk = <<>>
    /\ sFileSize = 0
    /\ sPc = "connecting"
    /\ sTid = None
    /\ sOffset = 0
    /\ sChunkIndex = 0
    /\ sObserved = {}
    /\ sent = <<>>
    /\ net = {}
    /\ rImpl \in {"protocol", "network"}
    /\ rNode \in {"debug", "release"}
    /\ rHandler = NoHandler
    /\ PENDING_FILES = <<>>
    /\ downloads = <<>>
    /\ respLog = <<>>
    /\ resp = {}
    /\ InitDomainVars
    /\ InitFtVars
    /\ InitNetVars
    /\ InitExtVars
    /\ InitRepoVars
    /\ lastOp = NoOp

NextRecv ==
    \/ PeerSendsRequest
    \/ RecvHandshakeRequest
    \/ RecvFileChunk
    \/ RecvFileChunk_open
    \/ RecvFileChunk_seek
    \/ RecvFileChunk_write_all
    \/ RecvFileChunk_flush
    \/ RecvCancelTransfer
    \/ get_and_remove_pending_filename

SpecRecv == InitRecv /\ [][NextRecv]_vars

\* --------------------------------------------------- FileTransferManager
\* file_transfer/mod.rs.  The manager's download directory is DownloadDir;
\* the files it creates and writes are in downloads.  Transfer ids are
\* chosen by the caller.
MgrTids == {Tid, OtherTid}
\* The chunks a caller passes: one byte or two.
MgrData == {<<7>>, <<7, 7>>}
\* The size a caller announces.
MgrSizes == {MaxFileSize}
UploadPath == <<"uploads", "f.bin">>

\* HashMap::insert
mgr_insert(tid, state) ==
    [t \in (DOMAIN mgr_active_transfers) \cup {tid} |->
        IF t = tid THEN state ELSE mgr_active_transfers[t]]

\* HashMap::remove
mgr_remove(tid) ==
    [t \in (DOMAIN mgr_active_transfers) \ {tid} |-> mgr_active_transfers[t]]

Sending(file_path, offset, size) ==
    [kind |-> "Sending", file_path |-> file_path, offset |-> offset, size |-> size]

Receiving(file_path, offset, size) ==
    [kind |-> "Receiving", file_path |-> file_path, offset |-> offset, size |-> size]

IsReceiving(tid) ==
    tid \in DOMAIN mgr_active_transfers /\ mgr_active_transfers[tid].kind = "Receiving"

IsSending(tid) ==
    tid \in DOMAIN mgr_active_transfers /\ mgr_active_transfers[tid].kind = "Sending"

\* The entry of tid is made anew or removed: its history starts again.
chunks_reset(tid) == [mgr_chunks EXCEPT ![tid] = <<>>]

\* process_chunk taking any chunk at or behind the current offset.
invalid_offset_Ahead(current_offset, offset) == current_offset < offset

\* process_chunk: `if *current_offset != offset`
invalid_offset(current_offset, offset) == current_offset # offset

\* tokio::fs::File.  write_all copies the data into the file's buffer, hands
\* the write to the blocking pool and returns Ok; the write is done later.
\* The next seek or flush on the file waits for it; when it has failed, the
\* error is kept in the file (last_write_err) and returned by the next
\* write_all or flush.  Dropping the file does not stop a write already
\* handed over.
InFlightWrite(owner, file_path, offset, data) ==
    [owner |-> owner, file_path |-> file_path, offset |-> offset, data |-> data]

\* The writes of files that have been dropped.
Orphans == {w \in blocking_pool : w.owner = "dropped"}

\* The writer of tid has no write in flight: seek and flush can go on.
writer_idle(tid) == \A w \in blocking_pool : w.owner # tid

\* The entry of tid can be dropped: its write in flight, if any, has room
\* among the orphans.
MayDrop(tid) == writer_idle(tid) \/ Cardinality(Orphans) < MaxOrphans

\* The writer of tid, if there is one, is dropped.
pool_after_drop(tid) ==
    {IF w.owner = tid THEN [w EXCEPT !.owner = "dropped"] ELSE w : w \in blocking_pool}

\* A write handed to the blocking pool is done: std's write_all, a loop of
\* write calls.  nwritten is the number of bytes that reached the file: all
\* of them, or only the first few (or none) when a write call failed; the
\* error then goes to the writer, if it still exists.
blocking_write ==
    /\ \E w \in blocking_pool : \E nwritten \in 0..Len(w.data) :
         LET ok == nwritten = Len(w.data) IN
         /\ blocking_pool' = blocking_pool \ {w}
         /\ downloads' = [downloads EXCEPT ![w.file_path] =
                              WriteAt(@, w.offset, SubSeq(w.data, 1, nwritten))]
         /\ last_write_err' = IF ~ok /\ w.owner # "dropped"
                                THEN last_write_err \cup {w.owner}
                                ELSE last_write_err
         /\ lastOp' = Op("blocking_write", w.owner, IF ok THEN "Ok" ELSE "Err")
    /\ UNCHANGED <<mgr_active_transfers, mgr_chunks>>
    /\ UNCHANGED <<netVars, repoVars, busVars, codecVars, cryptoVars, swarmVars,
                   discoveryVars, serviceVars>>
    /\ UNCHANGED <<sFile, sDisk, sFileSize, sPc, sTid, sOffset, sChunkIndex, sObserved, sent, net,
                   rImpl, rNode, rHandler, PENDING_FILES, respLog, resp>>
    /\ UNCHANGED domainVars

\* FileTransferManager::send_file.  insert replaces the entry of the id: a
\* Receiving entry is dropped with its writer.
mgr_send_file ==
    /\ \E tid \in MgrTids : \E size \in MgrSizes :
         /\ MayDrop(tid)
         /\ mgr_active_transfers' = mgr_insert(tid, Sending(UploadPath, 0, size))
         /\ mgr_chunks' = chunks_reset(tid)
         /\ blocking_pool' = pool_after_drop(tid)
         /\ last_write_err' = last_write_err \ {tid}
         /\ lastOp' = Op("send_file", tid, "Ok")
    /\ UNCHANGED <<netVars, repoVars, busVars, codecVars, cryptoVars, swarmVars,
                   discoveryVars, serviceVars>>
    /\ UNCHANGED <<wireVars, domainVars>>

\* FileTransferManager::handle_file_request.  failed is the call that
\* fails, if any: File::create, which makes the file or empties it, or
\* set_len(0) on the file created.  The transfer is always accepted; insert
\* replaces the entry of the id and drops its writer.  names are the file
\* names the remote peers announce.
handle_file_request_from(names) ==
    /\ \E tid \in MgrTids : \E file_name \in names :
       \E file_size \in MgrSizes : \E failed \in {"create", "set_len", "Ok"} :
         LET file_path == format_path(DownloadDir, file_name)
             created == [f \in (DOMAIN downloads) \cup {file_path} |->
                            IF f = file_path THEN <<>> ELSE downloads[f]]
         IN IF failed = "create"
              THEN /\ UNCHANGED <<downloads, mgr_active_transfers, mgr_chunks,
                                  blocking_pool, last_write_err>>
                   /\ lastOp' = Op("handle_file_request", tid, "Err(Error creating file)")
            ELSE IF failed = "set_len"
              THEN /\ downloads' = created
                   /\ UNCHANGED <<mgr_active_transfers, mgr_chunks,
                                  blocking_pool, last_write_err>>
                   /\ lastOp' = Op("handle_file_request", tid,
                                   "Err(Error setting file length)")
            ELSE /\ MayDrop(tid)
                 /\ downloads' = created
                 /\ mgr_active_transfers' =
                       mgr_insert(tid, Receiving(file_path, 0, file_size))
                 /\ mgr_chunks' = chunks_reset(tid)
                 /\ blocking_pool' = pool_after_drop(tid)
                 /\ last_write_err' = last_write_err \ {tid}
                 /\ lastOp' = Op("handle_file_request", tid, "Ok(true)")
    /\ UNCHANGED <<netVars, repoVars, busVars, codecVars, cryptoVars, swarmVars,
                   discoveryVars, serviceVars>>
    /\ UNCHANGED <<sFile, sDisk, sFileSize, sPc, sTid, sOffset, sChunkIndex, sObserved, sent, net,
                   rImpl, rNode, rHandler, PENDING_FILES, respLog, resp>>
    /\ UNCHANGED domainVars

handle_file_request == handle_file_request_from(FileNames)

\* FileTransferManager::process_chunk.  seek waits for the write in flight
\* (seekOk is its own outcome); write_all returns the error of that write if
\* it failed, and otherwise hands the data to the blocking pool and returns
\* Ok: the offset is advanced while the file is still as it was.  chunks are
\* the chunks the callers pass; none reaches beyond the size announced.
process_chunk_of(chunks) ==
    /\ \E tid \in MgrTids : \E offset \in 0..MaxOffset :
       \E data \in {d \in chunks : offset + Len(d) <= MaxFileSize} :
       \E seekOk \in BOOLEAN :
         IF IsReceiving(tid)
           THEN LET st == mgr_active_transfers[tid]
                IN IF invalid_offset(st.offset, offset)
                     THEN /\ UNCHANGED <<mgr_active_transfers, mgr_chunks,
                                         blocking_pool, last_write_err>>
                          /\ lastOp' = Op("process_chunk", tid, "Err(Invalid offset)")
                     ELSE /\ writer_idle(tid)
                          /\ IF ~seekOk
                               THEN /\ UNCHANGED <<mgr_active_transfers, mgr_chunks,
                                                   blocking_pool, last_write_err>>
                                    /\ lastOp' = Op("process_chunk", tid, "Err(io)")
                             ELSE IF tid \in last_write_err
                               THEN /\ last_write_err' = last_write_err \ {tid}
                                    /\ UNCHANGED <<mgr_active_transfers, mgr_chunks,
                                                   blocking_pool>>
                                    /\ lastOp' = Op("process_chunk", tid, "Err(io)")
                             ELSE /\ blocking_pool' = blocking_pool \cup
                                        {InFlightWrite(tid, st.file_path, offset, data)}
                                  /\ mgr_active_transfers' =
                                        mgr_insert(tid, Receiving(st.file_path,
                                                        st.offset + Len(data), st.size))
                                  /\ mgr_chunks' =
                                        [mgr_chunks EXCEPT ![tid] =
                                            Append(@, [offset |-> offset, len |-> Len(data)])]
                                  /\ UNCHANGED last_write_err
                                  /\ lastOp' = Op("process_chunk", tid, "Ok")
           ELSE /\ UNCHANGED <<mgr_active_transfers, mgr_chunks, blocking_pool,
                               last_write_err>>
                /\ lastOp' = Op("process_chunk", tid, "Err(No active transfer for this request)")
    /\ UNCHANGED <<netVars, repoVars, busVars, codecVars, cryptoVars, swarmVars,
                   discoveryVars, serviceVars>>
    /\ UNCHANGED wireVars
    /\ UNCHANGED domainVars

process_chunk == process_chunk_of(MgrData)

\* FileTransferManager::complete_transfer.  active_transfers.remove runs
\* before the pattern is matched, so an entry of the Sending kind is removed
\* as well although the call fails.  file.flush() waits for the write in
\* flight and returns its error, or the one the writer holds.
complete_transfer ==
    /\ \E tid \in MgrTids :
         /\ IsReceiving(tid) => writer_idle(tid)
         /\ mgr_active_transfers' = mgr_remove(tid)
         /\ mgr_chunks' = chunks_reset(tid)
         /\ last_write_err' = last_write_err \ {tid}
         /\ lastOp' = Op("complete_transfer", tid,
                         IF ~IsReceiving(tid)
                           THEN "Err(No active transfer for this request)"
                         ELSE IF tid \notin last_write_err THEN "Ok" ELSE "Err(io)")
    /\ UNCHANGED blocking_pool
    /\ UNCHANGED <<netVars, repoVars, busVars, codecVars, cryptoVars, swarmVars,
                   discoveryVars, serviceVars>>
    /\ UNCHANGED <<wireVars, domainVars>>

\* FileTransferManager::process_transfer_accepted: a rejected transfer is
\* removed, and a Receiving entry is dropped with its writer.
process_transfer_accepted ==
    /\ \E tid \in MgrTids : \E accepted \in BOOLEAN :
         IF accepted
           THEN /\ UNCHANGED <<mgr_active_transfers, mgr_chunks, blocking_pool,
                               last_write_err>>
                /\ lastOp' = Op("process_transfer_accepted", tid, "Ok")
           ELSE /\ MayDrop(tid)
                /\ mgr_active_transfers' = mgr_remove(tid)
                /\ mgr_chunks' = chunks_reset(tid)
                /\ blocking_pool' = pool_after_drop(tid)
                /\ last_write_err' = last_write_err \ {tid}
                /\ lastOp' = Op("process_transfer_accepted", tid, "Err(Transfer rejected)")
    /\ UNCHANGED <<netVars, repoVars, busVars, codecVars, cryptoVars, swarmVars,
                   discoveryVars, serviceVars>>
    /\ UNCHANGED <<wireVars, domainVars>>

\* FileTransferManager::process_chunk_ack
process_chunk_ack ==
    /\ \E tid \in MgrTids : \E offset \in 0..MaxOffset : \E received_bytes \in 1..2 :
         IF IsSending(tid)
           THEN LET st == mgr_active_transfers[tid]
                IN IF st.offset # offset
                     THEN /\ UNCHANGED mgr_active_transfers
                          /\ lastOp' = Op("process_chunk_ack", tid, "Err(Invalid offset acknowledgement)")
                     ELSE /\ mgr_active_transfers' =
                               mgr_insert(tid, Sending(st.file_path,
                                               st.offset + received_bytes, st.size))
                          /\ lastOp' = Op("process_chunk_ack", tid, "Ok")
           ELSE /\ UNCHANGED mgr_active_transfers
                /\ lastOp' = Op("process_chunk_ack", tid, "Err(No active transfer for this request)")
    /\ UNCHANGED <<netVars, repoVars, extVars>>
    /\ UNCHANGED <<wireVars, domainVars>>

\* FileTransferManager::process_transfer_completed: the entry is removed
\* on success only, and a Receiving entry is dropped with its writer.
process_transfer_completed ==
    /\ \E tid \in MgrTids : \E success \in BOOLEAN :
         IF success
           THEN /\ MayDrop(tid)
                /\ mgr_active_transfers' = mgr_remove(tid)
                /\ mgr_chunks' = chunks_reset(tid)
                /\ blocking_pool' = pool_after_drop(tid)
                /\ last_write_err' = last_write_err \ {tid}
                /\ lastOp' = Op("process_transfer_completed", tid, "Ok")
           ELSE /\ UNCHANGED <<mgr_active_transfers, mgr_chunks, blocking_pool,
                               last_write_err>>
                /\ lastOp' = Op("process_transfer_completed", tid, "Err(Transfer failed)")
    /\ UNCHANGED <<netVars, repoVars, busVars, codecVars, cryptoVars, swarmVars,
                   discoveryVars, serviceVars>>
    /\ UNCHANGED <<wireVars, domainVars>>

InitManager == InitDomain

NextManager ==
    \/ mgr_send_file
    \/ handle_file_request
    \/ process_chunk_of({<<7, 7>>})
    \/ blocking_write
    \/ complete_transfer
    \/ process_transfer_accepted
    \/ process_chunk_ack
    \/ process_transfer_completed

\* Every call of the manager, for either file name; each chunk fills the
\* file announced.
SpecManager == InitManager /\ [][NextManager]_vars

\* The receiving side of the manager: the calls that make, advance and end
\* a Receiving entry, and send_file, which makes the Sending entries that
\* process_chunk has to refuse.  Every transfer is of the file "f.bin", so
\* that the transfers share one file on disk.
NextManagerReceive ==
    \/ mgr_send_file
    \/ handle_file_request_from({"f.bin"})
    \/ process_chunk
    \/ blocking_write
    \/ complete_transfer

SpecManagerReceive == InitManager /\ [][NextManagerReceive]_vars

\* ------------------------------------------- swarm task and domain layer
\* infrastructure/network.rs: LibP2pNetworkService::handle_swarm_event, run
\* next to the domain services; both publish through the same
\* EventPublisher.
RemoteAddr == "/ip4/10.0.0.1/tcp/4001"

\* SwarmEvent::ConnectionEstablished: the remote address is pushed onto the
\* peer's entry and PeerConnected is published.
SwarmConnectionEstablished ==
    /\ Len(events) < MaxEvents
    /\ \E peer_id \in PeerIds :
         /\ open_connections[peer_id] < MaxConns
         /\ open_connections' = [open_connections EXCEPT ![peer_id] = @ + 1]
         /\ connected_peers' =
              [p \in (DOMAIN connected_peers) \cup {peer_id} |->
                 IF p = peer_id
                   THEN Append(IF p \in DOMAIN connected_peers
                                 THEN connected_peers[p] ELSE <<>>, RemoteAddr)
                   ELSE connected_peers[p]]
         /\ events' = publish([type |-> "PeerConnected", id |-> peer_id])
         /\ lastOp' = Op("ConnectionEstablished", peer_id, "Ok")
    /\ UNCHANGED <<transfers, files, peers>>
    /\ UNCHANGED <<wireVars, ftVars, repoVars, extVars>>

\* SwarmEvent::ConnectionClosed: the peer's entry is removed and
\* PeerDisconnected is published.  No repository is at hand here.
SwarmConnectionClosed ==
    /\ Len(events) < MaxEvents
    /\ \E peer_id \in PeerIds :
         /\ open_connections[peer_id] > 0
         /\ open_connections' = [open_connections EXCEPT ![peer_id] = @ - 1]
         /\ connected_peers' =
              [p \in (DOMAIN connected_peers) \ {peer_id} |-> connected_peers[p]]
         /\ events' = publish([type |-> "PeerDisconnected", id |-> peer_id])
         /\ lastOp' = Op("ConnectionClosed", peer_id, "Ok")
    /\ UNCHANGED <<transfers, files, peers>>
    /\ UNCHANGED <<wireVars, ftVars, repoVars, extVars>>

InitNet == InitDomain

NextNet ==
    \/ NextDomain
    \/ SwarmConnectionEstablished
    \/ SwarmConnectionClosed

SpecNet == InitNet /\ [][NextNet]_vars

\* ------------------------------ one TransferRepository, two callers
\* infrastructure/repositories.rs.  Task "status" calls
\* update_transfer_status and task "progress" calls
\* update_transfer_progress, both for transfer RepoTid, which a save_transfer
\* has stored before.  InMemoryTransferRepository does each update under the
\* write lock of its map; SledTransferRepository reads the record
\* (find_transfer_by_id), changes the copy and writes it back
\* (save_transfer), with an await between the two.  The JSON encoding of the
\* sled records loses nothing of the fields modelled here.
Tasks == {"status", "progress"}
RepoTid == 1

\* The arguments a caller may pass.
StatusArgs == Statuses
ProgressArgs ==
    {[bytes_transferred |-> b, chunks_transferred |-> c,
      total_bytes |-> MaxFileSize, total_chunks |-> div_ceil(MaxFileSize, CHUNK_SIZE)] :
        b \in 0..MaxProgress, c \in 0..MaxProgress}

\* tr.status = status / tr.progress = progress on the record tr
Updated(task, tr, arg) ==
    IF task = "status" THEN [tr EXCEPT !.status = arg]
    ELSE [tr EXCEPT !.progress = arg]

OpName(task) ==
    IF task = "status" THEN "update_transfer_status" ELSE "update_transfer_progress"

\* TransferRepository::save_transfer of a new Pending transfer.
Repo_save_transfer ==
    /\ RepoTid \notin DOMAIN transfers
    /\ \E file_size \in 1..MaxFileSize :
         transfers' = save_transfer(RepoTid,
             [file |-> RepoTid, receiver |-> 1, status |-> "Pending",
              progress |-> TransferProgress_new(file_size,
                               div_ceil(file_size, CHUNK_SIZE))])
    /\ lastOp' = Op("save_transfer", RepoTid, "Ok")
    /\ UNCHANGED <<files, peers, events, repoVars>>
    /\ UNCHANGED <<wireVars, ftVars, netVars, extVars>>

\* InMemoryTransferRepository::update_transfer_status and
\* update_transfer_progress: lock, get_mut, assign, unlock.
InMemory_update ==
    /\ repoImpl = "memory"
    /\ RepoTid \in DOMAIN transfers
    /\ \E task \in Tasks :
       \E arg \in (IF task = "status" THEN StatusArgs ELSE ProgressArgs) :
         /\ taskPc[task] = "idle"
         /\ transfers' = [transfers EXCEPT ![RepoTid] = Updated(task, @, arg)]
         /\ taskPc' = [taskPc EXCEPT ![task] = "done"]
         /\ taskLocal' = [taskLocal EXCEPT ![task] = [arg |-> <<arg>>, tr |-> <<>>]]
         /\ lastOp' = Op(OpName(task), RepoTid, "Ok")
    /\ UNCHANGED <<files, peers, events, repoImpl>>
    /\ UNCHANGED <<wireVars, ftVars, netVars, extVars>>

\* SledTransferRepository::update_transfer_status and
\* update_transfer_progress, first half: self.find_transfer_by_id(id).await?
\* An error of the read is returned by the update: the call is over and the
\* record is as it was.
Sled_update_find ==
    /\ repoImpl = "sled"
    /\ RepoTid \in DOMAIN transfers
    /\ \E task \in Tasks :
       \E arg \in (IF task = "status" THEN StatusArgs ELSE ProgressArgs) :
       \E result \in ReadResults :
         /\ taskPc[task] = "idle"
         /\ IF result = "Ok"
              THEN /\ taskPc' = [taskPc EXCEPT ![task] = "found"]
                   /\ taskLocal' = [taskLocal EXCEPT ![task] =
                                       [arg |-> <<arg>>, tr |-> <<transfers[RepoTid]>>]]
                   /\ lastOp' = Op(OpName(task), RepoTid, "find")
              ELSE /\ taskPc' = [taskPc EXCEPT ![task] = "failed"]
                   /\ taskLocal' = [taskLocal EXCEPT ![task] =
                                       [arg |-> <<arg>>, tr |-> <<>>]]
                   /\ lastOp' = Op(OpName(task), RepoTid, "Err: find_transfer_by_id")
    /\ UNCHANGED <<transfers, files, peers, events, repoImpl>>
    /\ UNCHANGED <<wireVars, ftVars, netVars, extVars>>

\* Second half: the field of the copy is set and self.save_transfer(&tr).await?
\* writes the whole copy back, or fails and leaves the record as it was.
Sled_update_save ==
    /\ repoImpl = "sled"
    /\ \E task \in Tasks : \E result \in SaveResults :
         /\ taskPc[task] = "found"
         /\ IF result = "Ok"
              THEN /\ transfers' = save_transfer(RepoTid,
                         Updated(task, taskLocal[task].tr[1], taskLocal[task].arg[1]))
                   /\ taskPc' = [taskPc EXCEPT ![task] = "done"]
                   /\ lastOp' = Op(OpName(task), RepoTid, "Ok")
              ELSE /\ UNCHANGED transfers
                   /\ taskPc' = [taskPc EXCEPT ![task] = "failed"]
                   /\ lastOp' = Op(OpName(task), RepoTid, "Err: save_transfer")
    /\ UNCHANGED <<files, peers, events, repoImpl, taskLocal>>
    /\ UNCHANGED <<wireVars, ftVars, netVars, extVars>>

InitRepo ==
    /\ sFile = <<>>
    /\ sDisk = <<>>
    /\ sFileSize = 0
    /\ sPc = "connecting"
    /\ sTid = None
    /\ sOffset = 0
    /\ sChunkIndex = 0
    /\ sObserved = {}
    /\ sent = <<>>
    /\ net = {}
    /\ rImpl = "protocol"
    /\ rNode = "release"
    /\ rHandler = NoHandler
    /\ PENDING_FILES = <<>>
    /\ downloads = <<>>
    /\ respLog = <<>>
    /\ resp = {}
    /\ InitDomainVars
    /\ InitFtVars
    /\ InitNetVars
    /\ InitExtVars
    /\ repoImpl \in {"memory", "sled"}
    /\ taskPc = [t \in Tasks |-> "idle"]
    /\ taskLocal = [t \in Tasks |-> [arg |-> <<>>, tr |-> <<>>]]
    /\ lastOp = NoOp

NextRepo ==
    \/ Repo_save_transfer
    \/ InMemory_update
    \/ Sled_update_find
    \/ Sled_update_save
    \/ add_file
    \/ delete_file

SpecRepo == InitRepo /\ [][NextRepo]_vars

\* ================================================================ event bus
\* infrastructure/events.rs.  An event is identified by the task that
\* published it and that task's running count: <<publisher, n>>.

\* The result of EventHandler::handle_event for each observer: h2 is an
\* observer that returns Err.
HandlerResult(h) == IF h = "h2" THEN "Err" ELSE "Ok"

\* Handler lists a caller can build and hand to start_processing.
ConsumerLists == {<<>>, <<"h1">>}

\* A join that gives up at the first handler error.
join_all_done_FailFast(snapshot, polled, failed) ==
    polled = 1..Len(snapshot) \/ failed # {}

\* join_all(futures).await completes when every future has completed.
join_all_done(snapshot, polled, failed) ==
    polled = 1..Len(snapshot)

\* A receiver that yields the newest buffered event.
recv_Newest(q) == [event |-> q[Len(q)], rest |-> SubSeq(q, 1, Len(q) - 1)]

\* mpsc::UnboundedReceiver::recv: the oldest buffered event.
recv(q) == [event |-> Head(q), rest |-> Tail(q)]

busOther == <<wireVars, transfers, files, peers, ftVars, netVars, repoVars,
              codecVars, cryptoVars, lateVars>>

\* EventPublisher::subscribe of either bus: inside
\* tokio::task::block_in_place, Handle::current().block_on pushes the
\* handler onto the publisher's own list.  block_in_place panics on a
\* current-thread runtime: the call does not return and the list is as it
\* was.
subscribe ==
    /\ \E b \in {bus_kind} : \E h \in Handlers :
         /\ b = "memory" => h \notin Range(mem_handlers)
         /\ b = "channel" => h \notin Range(chan_handlers)
         /\ IF runtime = "current_thread"
              THEN /\ UNCHANGED <<mem_handlers, chan_handlers>>
                   /\ lastOp' = Op("subscribe", h, "panic")
              ELSE /\ mem_handlers' = IF b = "memory" THEN Append(mem_handlers, h)
                                      ELSE mem_handlers
                   /\ chan_handlers' = IF b = "channel" THEN Append(chan_handlers, h)
                                       ELSE chan_handlers
                   /\ lastOp' = Op("subscribe", h, "Ok")
    /\ UNCHANGED <<event_tx, event_rx, cons, pubs, bus_received, returned,
                   events>>
    /\ UNCHANGED <<bus_kind, runtime, busOther>>

\* InMemoryEventPublisher::publish, first step: the event is pushed onto
\* the event log.
InMemory_publish_log ==
    /\ bus_kind = "memory"
    /\ \E p \in Publishers :
         /\ pubs[p].pc = "idle"
         /\ pubs[p].n < MaxPublish
         /\ events' = Append(events, <<p, pubs[p].n + 1>>)
         /\ pubs' = [pubs EXCEPT ![p] =
                [@ EXCEPT !.pc = "logged", !.n = @ + 1, !.bus = "memory",
                          !.event = <<<<p, pubs[p].n + 1>>>>]]
         /\ lastOp' = Op("publish", None, "logged")
    /\ UNCHANGED <<mem_handlers, chan_handlers, event_tx, event_rx, cons,
                   bus_received, returned>>
    /\ UNCHANGED <<bus_kind, runtime, busOther>>

\* Second step: handlers_snapshot = self.handlers.read().await.clone()
InMemory_publish_snapshot ==
    /\ \E p \in Publishers :
         /\ pubs[p].pc = "logged"
         /\ pubs' = [pubs EXCEPT ![p] =
                [@ EXCEPT !.pc = "dispatch", !.snapshot = mem_handlers,
                          !.polled = {}, !.failed = {}]]
         /\ lastOp' = Op("publish", None, "snapshot")
    /\ UNCHANGED <<mem_handlers, chan_handlers, event_tx, event_rx, cons,
                   bus_received, returned, events>>
    /\ UNCHANGED <<bus_kind, runtime, busOther>>

\* One future of join_all: h.handle_event(ev).await for one handler of the
\* snapshot.
InMemory_handle_event ==
    /\ \E p \in Publishers :
         /\ pubs[p].pc = "dispatch"
         /\ ~join_all_done(pubs[p].snapshot, pubs[p].polled, pubs[p].failed)
         /\ \E i \in (1..Len(pubs[p].snapshot)) \ pubs[p].polled :
              LET h == pubs[p].snapshot[i] IN
              /\ bus_received' = [bus_received EXCEPT !["memory"][h] =
                                     Append(@, pubs[p].event[1])]
              /\ pubs' = [pubs EXCEPT ![p] =
                    [@ EXCEPT !.polled = @ \cup {i},
                              !.failed = IF HandlerResult(h) = "Err"
                                         THEN @ \cup {i} ELSE @]]
              /\ lastOp' = Op("handle_event", h, HandlerResult(h))
    /\ UNCHANGED <<mem_handlers, chan_handlers, event_tx, event_rx, cons,
                   returned, events>>
    /\ UNCHANGED <<bus_kind, runtime, busOther>>

\* Last step: the errors are logged and publish returns Ok(()).
InMemory_publish_return ==
    /\ \E p \in Publishers :
         /\ pubs[p].pc = "dispatch"
         /\ join_all_done(pubs[p].snapshot, pubs[p].polled, pubs[p].failed)
         /\ returned' = returned \cup
                {[event |-> pubs[p].event[1], bus |-> "memory",
                  handlers |-> pubs[p].snapshot, failed |-> pubs[p].failed,
                  result |-> "Ok"]}
         /\ pubs' = [pubs EXCEPT ![p] = IdlePublisher(pubs[p].n)]
         /\ lastOp' = Op("publish", None, "Ok")
    /\ UNCHANGED <<mem_handlers, chan_handlers, event_tx, event_rx, cons,
                   bus_received, events>>
    /\ UNCHANGED <<bus_kind, runtime, busOther>>

\* ChannelEventPublisher::publish: event_tx.send(event), which fails only
\* when the receiver has been dropped.
Channel_publish ==
    /\ bus_kind = "channel"
    /\ \E p \in Publishers :
         /\ pubs[p].pc = "idle"
         /\ pubs[p].n < MaxPublish
         /\ LET ev == <<p, pubs[p].n + 1>>
                ok == event_rx # "dropped"
            IN /\ event_tx' = IF ok THEN Append(event_tx, ev) ELSE event_tx
               /\ returned' = returned \cup
                      {[event |-> ev, bus |-> "channel",
                        handlers |-> chan_handlers, failed |-> {},
                        result |-> IF ok THEN "Ok" ELSE "Err"]}
               /\ pubs' = [pubs EXCEPT ![p] = IdlePublisher(pubs[p].n + 1)]
               /\ lastOp' = Op("publish", None, IF ok THEN "Ok" ELSE "Err")
    /\ UNCHANGED <<mem_handlers, chan_handlers, event_rx, cons, bus_received,
                   events>>
    /\ UNCHANGED <<bus_kind, runtime, busOther>>

\* InMemoryEventPublisher::clear_events: event_log.clear().  The log of
\* the publisher is emptied; handlers and publish calls in flight are not
\* touched.
clear_events ==
    /\ bus_kind = "memory"
    /\ events' = <<>>
    /\ cleared_events' = cleared_events \cup Range(events)
    /\ lastOp' = Op("clear_events", None, "Ok")
    /\ UNCHANGED <<transfers, files, peers, handler_saw>>
    /\ UNCHANGED <<wireVars, ftVars, netVars, repoVars, busVars, codecVars, cryptoVars,
                   swarmVars, discoveryVars, managerVars>>

\* The caller spawns ChannelEventPublisher::start_processing(event_rx,
\* handlers).  The handlers argument is a list the caller supplies: the
\* publisher's own list is a private field with no accessor.
start_processing ==
    /\ bus_kind = "channel"
    /\ event_rx = "held"
    /\ \E hs \in ConsumerLists :
         cons' = [NoConsumer EXCEPT !.handlers = hs]
    /\ event_rx' = "consumer"
    /\ lastOp' = Op("start_processing", None, "spawned")
    /\ UNCHANGED <<mem_handlers, chan_handlers, event_tx, pubs, bus_received,
                   returned, events>>
    /\ UNCHANGED <<bus_kind, runtime, busOther>>

\* The caller drops the receiver without starting the consumer.
drop_receiver ==
    /\ bus_kind = "channel"
    /\ event_rx = "held"
    /\ event_rx' = "dropped"
    /\ event_tx' = <<>>
    /\ lastOp' = Op("drop", None, "Ok")
    /\ UNCHANGED <<mem_handlers, chan_handlers, cons, pubs, bus_received,
                   returned, events>>
    /\ UNCHANGED <<bus_kind, runtime, busOther>>

\* start_processing: event_rx.recv().await yields the next event and the
\* consumer snapshots its handler list.
Consumer_recv ==
    /\ event_rx = "consumer"
    /\ cons.pc = "recv"
    /\ event_tx # <<>>
    /\ event_tx' = recv(event_tx).rest
    /\ cons' = [cons EXCEPT !.pc = "dispatch",
                            !.event = <<recv(event_tx).event>>,
                            !.snapshot = cons.handlers, !.polled = {}]
    /\ lastOp' = Op("recv", None, "Some")
    /\ UNCHANGED <<mem_handlers, chan_handlers, event_rx, pubs, bus_received,
                   returned, events>>
    /\ UNCHANGED <<bus_kind, runtime, busOther>>

\* start_processing: one future of join_all.
Consumer_handle_event ==
    /\ event_rx = "consumer"
    /\ cons.pc = "dispatch"
    /\ \E i \in (1..Len(cons.snapshot)) \ cons.polled :
         LET h == cons.snapshot[i] IN
         /\ bus_received' = [bus_received EXCEPT !["channel"][h] =
                                Append(@, cons.event[1])]
         /\ cons' = [cons EXCEPT !.polled = @ \cup {i}]
         /\ lastOp' = Op("handle_event", h, HandlerResult(h))
    /\ UNCHANGED <<mem_handlers, chan_handlers, event_tx, event_rx, pubs,
                   returned, events>>
    /\ UNCHANGED <<bus_kind, runtime, busOther>>

\* start_processing: join_all has completed; back to recv.
Consumer_loop ==
    /\ event_rx = "consumer"
    /\ cons.pc = "dispatch"
    /\ join_all_done(cons.snapshot, cons.polled, {})
    /\ cons' = [cons EXCEPT !.pc = "recv", !.event = <<>>,
                            !.snapshot = <<>>, !.polled = {}]
    /\ lastOp' = Op("recv", None, "await")
    /\ UNCHANGED <<mem_handlers, chan_handlers, event_tx, event_rx, pubs,
                   bus_received, returned, events>>
    /\ UNCHANGED <<bus_kind, runtime, busOther>>

InitBus ==
    /\ sFile = <<>>
    /\ sDisk = <<>>
    /\ sFileSize = 0
    /\ sPc = "connecting"
    /\ sTid = None
    /\ sOffset = 0
    /\ sChunkIndex = 0
    /\ sObserved = {}
    /\ sent = <<>>
    /\ net = {}
    /\ rImpl = "protocol"
    /\ rNode = "release"
    /\ rHandler = NoHandler
    /\ PENDING_FILES = <<>>
    /\ downloads = <<>>
    /\ respLog = <<>>
    /\ resp = {}
    /\ InitDomainVars
    /\ InitFtVars
    /\ InitNetVars
    /\ InitRepoVars
    /\ bus_kind \in Buses
    /\ runtime \in Runtimes
    /\ InitBusFields
    /\ InitCodecVars
    /\ InitCryptoVars
    /\ InitLateVars
    /\ lastOp = NoOp

NextBus ==
    \/ subscribe
    \/ InMemory_publish_log
    \/ InMemory_publish_snapshot
    \/ InMemory_handle_event
    \/ InMemory_publish_return
    \/ clear_events
    \/ Channel_publish
    \/ start_processing
    \/ drop_receiver
    \/ Consumer_recv
    \/ Consumer_handle_event
    \/ Consumer_loop

SpecBus == InitBus /\ [][NextBus]_vars

\* The consumer task is scheduled whenever it can take a step.
SpecBusFair ==
    /\ InitBus
    /\ [][NextBus]_vars
    /\ WF_vars(Consumer_recv)
    /\ WF_vars(Consumer_handle_event)
    /\ WF_vars(Consumer_loop)

\* ==================================================================== codec
\* file_transfer/request_handler.rs: FileTransferCodec.  A frame is a 4-byte
\* big-endian length followed by the bincode (config::standard) encoding of
\* the message.  Bytes are numbers 0..255; strings are sequences of bytes.
\* The size caps are scaled: MAX_FRAME_SIZE stands for 2 MiB and
\* MAX_HANDSHAKE_SIZE for 64 KiB.

\* u32::to_be_bytes(len as u32): the low four bytes of len.
to_be_bytes(n) ==
    <<(n \div 16777216) % 256, (n \div 65536) % 256, (n \div 256) % 256,
      n % 256>>

\* u32::from_be_bytes
from_be_bytes(b) == b[1] * 16777216 + b[2] * 65536 + b[3] * 256 + b[4]

\* ---- bincode encoding (variable-length integers, little endian)
RECURSIVE le_bytes(_, _)
le_bytes(n, k) == IF k = 0 THEN <<>> ELSE <<n % 256>> \o le_bytes(n \div 256, k - 1)

\* Unsigned varint: one byte below 251, else a marker and the fixed width
\* (numbers of the model stay below 2^31, so the 8-byte form is not needed).
enc_varint(n) ==
    IF n < 251 THEN <<n>>
    ELSE IF n < 65536 THEN <<251>> \o le_bytes(n, 2)
    ELSE <<252>> \o le_bytes(n, 4)

enc_bool(b) == <<IF b THEN 1 ELSE 0>>

\* String and Vec<u8>: length as varint, then the bytes.
enc_bytes(s) == enc_varint(Len(s)) \o s

\* Option<String>: 0, or 1 followed by the string.
enc_option(o) == IF o = <<>> THEN <<0>> ELSE <<1>> \o enc_bytes(o[1])

\* bincode::encode_to_vec(request, config::standard())
encode_request(m) ==
    CASE m.variant = "HandshakeRequest" ->
           enc_varint(0) \o enc_bytes(m.filename) \o enc_varint(m.filesize)
             \o enc_bool(m.encrypted) \o enc_bytes(m.transfer_id)
      [] m.variant = "FileChunk" ->
           enc_varint(1) \o enc_bytes(m.transfer_id) \o enc_varint(m.chunk_index)
             \o enc_varint(m.total_chunks) \o enc_bytes(m.data)
             \o enc_bool(m.is_last)
      [] m.variant = "CancelTransfer" ->
           enc_varint(2) \o enc_bytes(m.transfer_id)

\* bincode::encode_to_vec(response, config::standard())
encode_response(m) ==
    CASE m.variant = "HandshakeResponse" ->
           enc_varint(0) \o enc_bool(m.accepted) \o enc_option(m.reason)
             \o enc_option(m.transfer_id)
      [] m.variant = "ChunkResponse" ->
           enc_varint(1) \o enc_bytes(m.transfer_id) \o enc_varint(m.chunk_index)
             \o enc_bool(m.success) \o enc_option(m.error)
      [] m.variant = "TransferComplete" ->
           enc_varint(2) \o enc_bytes(m.transfer_id) \o enc_bool(m.success)
             \o enc_option(m.error)

\* write_request / write_response: the length prefix, then the payload.
frame(payload) == to_be_bytes(Len(payload)) \o payload

\* ---- bincode decoding: each decoder returns what it read and the rest.
DecErr == [ok |-> FALSE, val |-> <<>>, rest |-> <<>>]
DecOk(v, rest) == [ok |-> TRUE, val |-> <<v>>, rest |-> rest]

RECURSIVE from_le_bytes(_)
from_le_bytes(b) == IF b = <<>> THEN 0 ELSE b[1] + 256 * from_le_bytes(Tail(b))

\* Width announced by a varint marker byte; 0 for a type the target cannot
\* hold (254 = u128) and for the reserved byte 255.
marker_width(b, max_width) ==
    LET w == CASE b = 251 -> 2 [] b = 252 -> 4 [] b = 253 -> 8 [] OTHER -> 0
    IN IF w <= max_width THEN w ELSE 0

\* Varint of a target type max_width bytes wide (4 for u32, 8 for u64/usize).
dec_varint(b, max_width) ==
    IF b = <<>> THEN DecErr
    ELSE IF b[1] < 251 THEN DecOk(b[1], Tail(b))
    ELSE LET w == marker_width(b[1], max_width) IN
         IF w = 0 \/ Len(b) < 1 + w THEN DecErr
         ELSE DecOk(from_le_bytes(SubSeq(b, 2, 1 + w)),
                    SubSeq(b, 2 + w, Len(b)))

\* A bool decoder that reads every valid byte as true.
dec_bool_Truthy(b) ==
    IF b = <<>> \/ b[1] > 1 THEN DecErr ELSE DecOk(TRUE, Tail(b))

\* bool: 0 or 1, anything else is an error.
dec_bool(b) ==
    IF b = <<>> \/ b[1] > 1 THEN DecErr ELSE DecOk(b[1] = 1, Tail(b))

\* Vec<u8>: a length and that many bytes.
dec_bytes(b) ==
    LET n == dec_varint(b, 8) IN
    IF ~n.ok THEN DecErr
    ELSE IF Len(n.rest) < n.val[1] THEN DecErr
    ELSE DecOk(SubSeq(n.rest, 1, n.val[1]),
               SubSeq(n.rest, n.val[1] + 1, Len(n.rest)))

\* String: as Vec<u8>, and the bytes must be UTF-8 (single-byte code points
\* are the ones below 128).
dec_string(b) ==
    LET v == dec_bytes(b) IN
    IF ~v.ok THEN DecErr
    ELSE IF \E i \in 1..Len(v.val[1]) : v.val[1][i] >= 128 THEN DecErr
    ELSE v

\* Option<String>: tag 0 or 1.
dec_option(b) ==
    IF b = <<>> \/ b[1] > 1 THEN DecErr
    ELSE IF b[1] = 0 THEN DecOk(<<>>, Tail(b))
    ELSE LET v == dec_string(Tail(b)) IN
         IF ~v.ok THEN DecErr ELSE DecOk(<<v.val[1]>>, v.rest)

\* The value of v, computed once, handed to F.
Then(v, F(_)) == CHOOSE y \in {F(x) : x \in {v}} : TRUE

\* One field of a derived Decode implementation, by its Rust type.
dec_field(type, b) ==
    CASE type = "String" -> dec_string(b)
      [] type = "u64" -> dec_varint(b, 8)
      [] type = "bool" -> dec_bool(b)
      [] type = "Vec<u8>" -> dec_bytes(b)
      [] type = "Option<String>" -> dec_option(b)

\* The fields of a variant, decoded in declaration order; the first error
\* ends the decoding.
RECURSIVE dec_fields(_, _, _)
dec_fields(types, b, acc) ==
    IF types = <<>> THEN DecOk(acc, b)
    ELSE Then(dec_field(Head(types), b), LAMBDA f :
            IF ~f.ok THEN DecErr
            ELSE dec_fields(Tail(types), f.rest, Append(acc, f.val[1])))

\* Field types of the variants of ProtocolRequest, by variant index.
RequestFields(tag) ==
    CASE tag = 0 -> <<"String", "u64", "bool", "String">>
      [] tag = 1 -> <<"String", "u64", "u64", "Vec<u8>", "bool">>
      [] tag = 2 -> <<"String">>

MakeRequest(tag, v) ==
    CASE tag = 0 -> [variant |-> "HandshakeRequest", filename |-> v[1],
                     filesize |-> v[2], encrypted |-> v[3],
                     transfer_id |-> v[4]]
      [] tag = 1 -> [variant |-> "FileChunk", transfer_id |-> v[1],
                     chunk_index |-> v[2], total_chunks |-> v[3],
                     data |-> v[4], is_last |-> v[5]]
      [] tag = 2 -> [variant |-> "CancelTransfer", transfer_id |-> v[1]]

\* Field types of the variants of ProtocolResponse, by variant index.
ResponseFields(tag) ==
    CASE tag = 0 -> <<"bool", "Option<String>", "Option<String>">>
      [] tag = 1 -> <<"String", "u64", "bool", "Option<String>">>
      [] tag = 2 -> <<"String", "bool", "Option<String>">>

MakeResponse(tag, v) ==
    CASE tag = 0 -> [variant |-> "HandshakeResponse", accepted |-> v[1],
                     reason |-> v[2], transfer_id |-> v[3]]
      [] tag = 1 -> [variant |-> "ChunkResponse", transfer_id |-> v[1],
                     chunk_index |-> v[2], success |-> v[3], error |-> v[4]]
      [] tag = 2 -> [variant |-> "TransferComplete", transfer_id |-> v[1],
                     success |-> v[2], error |-> v[3]]

\* bincode::decode_from_slice::<ProtocolRequest>: the variant index (a u32
\* varint), then the fields; the result carries the bytes left over.
decode_request(b) ==
    Then(dec_varint(b, 4), LAMBDA tag :
        IF ~tag.ok THEN DecErr
        ELSE IF tag.val[1] > 2 THEN DecErr
        ELSE Then(dec_fields(RequestFields(tag.val[1]), tag.rest, <<>>),
                  LAMBDA fs :
                    IF ~fs.ok THEN DecErr
                    ELSE DecOk(MakeRequest(tag.val[1], fs.val[1]), fs.rest)))

\* bincode::decode_from_slice::<ProtocolResponse>
decode_response(b) ==
    Then(dec_varint(b, 4), LAMBDA tag :
        IF ~tag.ok THEN DecErr
        ELSE IF tag.val[1] > 2 THEN DecErr
        ELSE Then(dec_fields(ResponseFields(tag.val[1]), tag.rest, <<>>),
                  LAMBDA fs :
                    IF ~fs.ok THEN DecErr
                    ELSE DecOk(MakeResponse(tag.val[1], fs.val[1]), fs.rest)))

\* ---- the reading side
ReadErr(op, input, err, allocated, payload_read) ==
    [op |-> op, input |-> input, ok |-> FALSE, msg |-> <<>>, err |-> err,
     allocated |-> allocated, payload_read |-> payload_read]

ReadOk(op, input, m, len) ==
    [op |-> op, input |-> input, ok |-> TRUE, msg |-> <<m>>, err |-> "",
     allocated |-> len, payload_read |-> len]

\* A length check that lets a frame one byte over the cap through.
frame_too_large_OffByOne(len) == len > MAX_FRAME_SIZE + 1

\* if len > MAX_FRAME_SIZE
frame_too_large(len) == len > MAX_FRAME_SIZE

\* if len > MAX_HANDSHAKE_SIZE
handshake_too_large(len) == len > MAX_HANDSHAKE_SIZE

\* FileTransferCodec::read_request on a substream holding the bytes s.
ReadRequest(s) ==
    IF Len(s) < 4 THEN ReadErr("read_request", s, "UnexpectedEof", 0, 0)
    ELSE
    LET len == from_be_bytes(SubSeq(s, 1, 4))
        avail == Len(s) - 4
    IN
    IF frame_too_large(len)
    THEN ReadErr("read_request", s, "request frame too large", 0, 0)
    ELSE IF avail < len
    THEN ReadErr("read_request", s, "UnexpectedEof", len, avail)
    ELSE
    LET d == decode_request(SubSeq(s, 5, 4 + len)) IN
    IF ~d.ok THEN ReadErr("read_request", s, "InvalidData", len, len)
    ELSE IF d.val[1].variant = "HandshakeRequest" /\ handshake_too_large(len)
    THEN ReadErr("read_request", s, "handshake frame too large", len, len)
    ELSE IF d.val[1].variant = "FileChunk"
            /\ frame_too_large(Len(d.val[1].data))
    THEN ReadErr("read_request", s, "chunk data too large", len, len)
    ELSE ReadOk("read_request", s, d.val[1], len)

\* FileTransferCodec::read_response on a substream holding the bytes s.
ReadResponse(s) ==
    IF Len(s) < 4 THEN ReadErr("read_response", s, "UnexpectedEof", 0, 0)
    ELSE
    LET len == from_be_bytes(SubSeq(s, 1, 4))
        avail == Len(s) - 4
    IN
    IF frame_too_large(len)
    THEN ReadErr("read_response", s, "response frame too large", 0, 0)
    ELSE IF avail < len
    THEN ReadErr("read_response", s, "UnexpectedEof", len, avail)
    ELSE
    LET d == decode_response(SubSeq(s, 5, 4 + len)) IN
    IF ~d.ok THEN ReadErr("read_response", s, "InvalidData", len, len)
    ELSE ReadOk("read_response", s, d.val[1], len)

\* ---- messages and byte strings of the model
CodecStrings == {<<>>, <<1>>}
CodecNames == {<<>>, <<1>>, <<1, 2>>}
CodecOptions == {<<>>} \cup {<<t>> : t \in CodecStrings}
CodecNumbers == {0, 1}

\* Chunk data of every length up to MaxDataLen.
CodecData == {[i \in 1..n |-> 1 + (i % 2)] : n \in 0..MaxDataLen}

Requests ==
    {[variant |-> "HandshakeRequest", filename |-> f, filesize |-> n,
      encrypted |-> e, transfer_id |-> t] :
        f \in CodecNames, n \in CodecNumbers, e \in BOOLEAN, t \in CodecStrings}
    \cup
    {[variant |-> "FileChunk", transfer_id |-> t, chunk_index |-> i,
      total_chunks |-> n, data |-> d, is_last |-> l] :
        t \in CodecStrings, i \in CodecNumbers, n \in CodecNumbers,
        d \in CodecData, l \in BOOLEAN}
    \cup
    {[variant |-> "CancelTransfer", transfer_id |-> t] : t \in CodecStrings}

\* The responses, one set per variant (transfer_id is an Option in the
\* first and a String in the others).
HandshakeResponses ==
    {[variant |-> "HandshakeResponse", accepted |-> a, reason |-> r,
      transfer_id |-> t] :
        a \in BOOLEAN, r \in CodecOptions, t \in CodecOptions}

ChunkResponses ==
    {[variant |-> "ChunkResponse", transfer_id |-> t, chunk_index |-> i,
      success |-> a, error |-> r] :
        t \in CodecStrings, i \in CodecNumbers, a \in BOOLEAN,
        r \in CodecOptions}

TransferCompletes ==
    {[variant |-> "TransferComplete", transfer_id |-> t, success |-> a,
      error |-> r] :
        t \in CodecStrings, a \in BOOLEAN, r \in CodecOptions}

\* Length prefixes a peer may send: every length around the caps, and one
\* that uses a higher byte of the prefix.
PeerPrefixes ==
    {to_be_bytes(n) : n \in 0..(MAX_FRAME_SIZE + 2)} \cup {<<0, 0, 1, 0>>}

\* Every byte string of at most MaxPayload bytes.
PeerPayloads == UNION {[1..n -> 0..MaxByte] : n \in 0..MaxPayload}

codecOther == <<wireVars, domainVars, ftVars, netVars, repoVars, busVars,
                cryptoVars, lateVars>>

\* FileTransferCodec::write_request: encode, write the prefix and the data.
write_request ==
    /\ io = <<>>
    /\ \E m \in Requests :
         /\ io' = frame(encode_request(m))
         /\ written' = <<[dir |-> "request", msg |-> m]>>
    /\ lastOp' = Op("write_request", None, "Ok")
    /\ UNCHANGED <<rd, codecOther>>

\* FileTransferCodec::write_response
write_response ==
    /\ io = <<>>
    /\ \E v \in {"HandshakeResponse", "ChunkResponse", "TransferComplete"} :
       \E m \in (CASE v = "HandshakeResponse" -> HandshakeResponses
                   [] v = "ChunkResponse" -> ChunkResponses
                   [] v = "TransferComplete" -> TransferCompletes) :
         /\ io' = frame(encode_response(m))
         /\ written' = <<[dir |-> "response", msg |-> m]>>
    /\ lastOp' = Op("write_response", None, "Ok")
    /\ UNCHANGED <<rd, codecOther>>

\* A remote peer that does not use this codec puts bytes on the substream.
peer_writes ==
    /\ io = <<>>
    /\ \E prefix \in PeerPrefixes : \E payload \in PeerPayloads :
         io' = prefix \o payload
    /\ written' = <<>>
    /\ lastOp' = Op("peer_writes", None, "Ok")
    /\ UNCHANGED <<rd, codecOther>>

\* FileTransferCodec::read_request on the substream.
read_request ==
    /\ io # <<>>
    /\ rd.op = "none"
    /\ written # <<>> => written[1].dir = "request"
    /\ rd' = ReadRequest(io)
    /\ lastOp' = Op("read_request", None, IF ReadRequest(io).ok THEN "Ok" ELSE "Err")
    /\ UNCHANGED <<io, written, codecOther>>

\* FileTransferCodec::read_response on the substream.
read_response ==
    /\ io # <<>>
    /\ rd.op = "none"
    /\ written # <<>> => written[1].dir = "response"
    /\ rd' = ReadResponse(io)
    /\ lastOp' = Op("read_response", None, IF ReadResponse(io).ok THEN "Ok" ELSE "Err")
    /\ UNCHANGED <<io, written, codecOther>>

InitCodec == InitDomain

NextCodec ==
    \/ write_request
    \/ write_response
    \/ peer_writes
    \/ read_request
    \/ read_response

SpecCodec == InitCodec /\ [][NextCodec]_vars

\* =================================================================== crypto
\* core/crypto.rs: encrypt and decrypt with AES-256-GCM (ring).  The output
\* of encrypt is nonce || ciphertext || tag.  The block cipher is modelled
\* as a keystream added to the plaintext byte by byte, the GCM tag as the
\* authenticator of (key, nonce, ciphertext), repeated over its TAG_LEN
\* positions.

\* Key stream byte i of AES-CTR under key and nonce.
KeyStream(key, nonce, i) == (key[1] * 7 + nonce[1] * 3 + i) % 256

Cipher(key, nonce, pt) ==
    [i \in 1..Len(pt) |-> (pt[i] + KeyStream(key, nonce, i)) % 256]

Decipher(key, nonce, ct) ==
    [i \in 1..Len(ct) |-> (ct[i] + 256 - KeyStream(key, nonce, i)) % 256]

\* The authenticator GCM computes over the ciphertext (the AAD is empty).
Mac(key, nonce, ct) == [key |-> key, nonce |-> nonce, ct |-> ct]

\* UnboundKey::new(&AES_256_GCM, key) fails unless the key has 32 bytes.
valid_key(key) == Len(key) = KEY_LEN

\* LessSafeKey::seal_in_place_append_tag
seal_in_place_append_tag(key, nonce, pt) ==
    LET ct == Cipher(key, nonce, pt) IN
    ct \o [i \in 1..TAG_LEN |-> Mac(key, nonce, ct)]

\* LessSafeKey::open_in_place: the plaintext, or an error when the input is
\* shorter than a tag or the tag does not verify.
open_in_place(key, nonce, in_out) ==
    IF Len(in_out) < TAG_LEN THEN [ok |-> FALSE, out |-> <<>>]
    ELSE LET ct == SubSeq(in_out, 1, Len(in_out) - TAG_LEN)
             tag == SubSeq(in_out, Len(in_out) - TAG_LEN + 1, Len(in_out))
         IN IF \A i \in 1..TAG_LEN : tag[i] = Mac(key, nonce, ct)
            THEN [ok |-> TRUE, out |-> Decipher(key, nonce, ct)]
            ELSE [ok |-> FALSE, out |-> <<>>]

\* A decrypt that also refuses an input of exactly nonce plus tag.
too_short_Strict(encrypted) == Len(encrypted) <= NONCE_LEN + TAG_LEN

\* if encrypted.len() < 12 + 16
too_short(encrypted) == Len(encrypted) < NONCE_LEN + TAG_LEN

CryptoErr(op, key, input, err) ==
    [op |-> op, key |-> key, input |-> input, ok |-> FALSE, out |-> <<>>,
     err |-> err]

CryptoOk(op, key, input, out) ==
    [op |-> op, key |-> key, input |-> input, ok |-> TRUE, out |-> out,
     err |-> ""]

\* encrypt(data, key) with the nonce the random generator produced
\* (rng_ok = FALSE: SystemRandom::fill failed).
Encrypt(data, key, rng_ok, nonce) ==
    IF ~rng_ok THEN CryptoErr("encrypt", key, data, "Encryption")
    ELSE IF ~valid_key(key) THEN CryptoErr("encrypt", key, data, "InvalidKey")
    ELSE CryptoOk("encrypt", key, data,
                  nonce \o seal_in_place_append_tag(key, nonce, data))

\* decrypt(encrypted, key)
Decrypt(encrypted, key) ==
    IF too_short(encrypted)
    THEN CryptoErr("decrypt", key, encrypted, "Decryption")
    ELSE IF ~valid_key(key)
    THEN CryptoErr("decrypt", key, encrypted, "InvalidKey")
    ELSE LET nonce == SubSeq(encrypted, 1, NONCE_LEN)
             opened == open_in_place(key, nonce,
                           SubSeq(encrypted, NONCE_LEN + 1, Len(encrypted)))
         IN IF opened.ok THEN CryptoOk("decrypt", key, encrypted, opened.out)
            ELSE CryptoErr("decrypt", key, encrypted, "Decryption")

\* Keys: two of the right length, one a byte short, one a byte long.
Keys ==
    {[i \in 1..KEY_LEN |-> 0], [i \in 1..KEY_LEN |-> 1],
     [i \in 1..(KEY_LEN - 1) |-> 0], [i \in 1..(KEY_LEN + 1) |-> 0]}

Nonces == {[i \in 1..NONCE_LEN |-> 0], [i \in 1..NONCE_LEN |-> 5]}

Plaintexts == UNION {[1..n -> {0, 255}] : n \in 0..MaxPlainLen}

\* What a caller may hand to decrypt after an encrypt that produced out:
\* out itself, out with its first byte changed, or a prefix of out that
\* is shorter than nonce plus tag.
DecryptInputs(out) ==
    {out, [out EXCEPT ![1] = (@ + 1) % 256]}
    \cup {SubSeq(out, 1, n) : n \in {0, NONCE_LEN, NONCE_LEN + TAG_LEN - 1}}

cryptoOther == <<wireVars, domainVars, ftVars, netVars, repoVars, busVars,
                 codecVars, lateVars>>

\* crypto::encrypt
encrypt ==
    /\ enc.op = "none"
    /\ \E data \in Plaintexts : \E key \in Keys : \E rng_ok \in BOOLEAN :
       \E nonce \in Nonces :
         /\ enc' = Encrypt(data, key, rng_ok, nonce)
         /\ lastOp' = Op("encrypt", None,
                         IF Encrypt(data, key, rng_ok, nonce).ok THEN "Ok"
                         ELSE "Err")
    /\ UNCHANGED <<dec, cryptoOther>>

\* crypto::decrypt
decrypt ==
    /\ enc.ok
    /\ dec.op = "none"
    /\ \E input \in DecryptInputs(enc.out) : \E key \in Keys :
         /\ dec' = Decrypt(input, key)
         /\ lastOp' = Op("decrypt", None,
                         IF Decrypt(input, key).ok THEN "Ok" ELSE "Err")
    /\ UNCHANGED <<enc, cryptoOther>>

InitCrypto == InitDomain

NextCrypto ==
    \/ encrypt
    \/ decrypt

SpecCrypto == InitCrypto /\ [][NextCrypto]_vars

\* =============================================================== swarm task
\* infrastructure/network.rs: LibP2pNetworkService::run_swarm_task, the one
\* task that owns the swarm.  Each iteration of its loop takes either the
\* next command of the command channel or the next swarm event.

\* The commands of NetworkCommand that are sent in the model: two whose
\* call into the swarm can fail and two that cannot fail.
Commands ==
    {[kind |-> "StartListening", peers |-> <<>>],
     [kind |-> "ConnectToPeer", peers |-> <<>>],
     [kind |-> "AddKademliaAddress", peers |-> <<RemoteAddr>>],
     [kind |-> "BootstrapKademlia", peers |-> <<>>],
     [kind |-> "BootstrapKademlia", peers |-> <<RemoteAddr>>]}

\* Results the swarm can give to the call a command makes: listen_on and
\* dial can fail, add_address cannot.
CommandResults(command) ==
    IF command.kind \in {"StartListening", "ConnectToPeer"}
      THEN {"Ok", "Err"}
      ELSE {"Ok"}

\* The Result of kademlia.bootstrap(): Ok(QueryId) or Err(NoKnownPeers),
\* decided by the routing table of the library at the time of the call.
BootstrapResults == {"Ok", "Err"}

\* run_swarm_task stopping as soon as a handler returns an error.
loop_continues_StopOnError(result) == result = "Ok"

\* run_swarm_task: `if let Err(e) = ... { error!(..) }` in both branches of
\* the select: the error is logged and the loop goes on.
loop_continues(result) == TRUE

swarmOther == <<wireVars, domainVars, ftVars, netVars, repoVars, busVars,
                codecVars, cryptoVars, discoveryVars, serviceVars, managerVars>>

\* A method of the service sends a command on command_tx.
send_command ==
    /\ Len(submitted) < MaxCommands
    /\ \E command \in Commands :
         /\ command_rx' = Append(command_rx, command)
         /\ submitted' = Append(submitted, command)
         /\ lastOp' = Op("send_command", None, "Ok")
    /\ UNCHANGED <<swarm_task, handled, listening, listen_events,
                   bootstrap_attempted, bootstrap_log>>
    /\ UNCHANGED swarmOther

\* The command branch of the select: command_rx.recv() and handle_command.
HandleCommand ==
    /\ swarm_task = "running"
    /\ command_rx # <<>>
    /\ LET command == Head(command_rx) IN
       \E result \in CommandResults(command) :
         /\ command_rx' = Tail(command_rx)
         /\ handled' = Append(handled, [command |-> command, result |-> result])
         /\ listening' = (listening \/ (command.kind = "StartListening" /\ result = "Ok"))
         /\ swarm_task' = IF loop_continues(result) THEN "running" ELSE "stopped"
         /\ lastOp' = Op("handle_command", None, result)
    /\ UNCHANGED <<submitted, listen_events, bootstrap_attempted, bootstrap_log>>
    /\ UNCHANGED swarmOther

\* The event branch for SwarmEvent::NewListenAddr: the bootstrap is
\* triggered when bootstrap_attempted is false, and the flag is set when
\* kademlia.bootstrap() returned Ok; handle_swarm_event then logs the
\* address.
NewListenAddr ==
    /\ swarm_task = "running"
    /\ listening
    /\ listen_events < MaxListenAddrs
    /\ listen_events' = listen_events + 1
    /\ IF ~bootstrap_attempted
         THEN \E result \in BootstrapResults :
              /\ bootstrap_log' =
                   Append(bootstrap_log, [at |-> listen_events + 1, result |-> result])
              /\ bootstrap_attempted' = (result = "Ok")
         ELSE UNCHANGED <<bootstrap_log, bootstrap_attempted>>
    /\ lastOp' = Op("NewListenAddr", None, "Ok")
    /\ UNCHANGED <<swarm_task, command_rx, submitted, handled, listening>>
    /\ UNCHANGED swarmOther

\* The event branch for ConnectionEstablished and ConnectionClosed.
SwarmTaskConnectionEvent ==
    /\ swarm_task = "running"
    /\ \/ SwarmConnectionEstablished
       \/ SwarmConnectionClosed

\* handle_mdns_event, mdns::Event::Discovered: PeerConnected is published
\* for each listed peer; connected_peers is not touched.
MdnsDiscovered ==
    /\ swarm_task = "running"
    /\ Len(events) < MaxEvents
    /\ \E peer_id \in PeerIds :
         /\ events' = publish([type |-> "PeerConnected", id |-> peer_id])
         /\ lastOp' = Op("MdnsDiscovered", peer_id, "Ok")
    /\ UNCHANGED <<transfers, files, peers, netVars>>
    /\ UNCHANGED <<wireVars, ftVars, repoVars, extVars>>

\* handle_mdns_event, mdns::Event::Expired: each listed peer is removed from
\* connected_peers and PeerDisconnected is published.
MdnsExpired ==
    /\ swarm_task = "running"
    /\ Len(events) < MaxEvents
    /\ \E peer_id \in PeerIds :
         /\ connected_peers' =
              [p \in (DOMAIN connected_peers) \ {peer_id} |-> connected_peers[p]]
         /\ events' = publish([type |-> "PeerDisconnected", id |-> peer_id])
         /\ lastOp' = Op("MdnsExpired", peer_id, "Ok")
    /\ UNCHANGED <<transfers, files, peers, open_connections>>
    /\ UNCHANGED <<wireVars, ftVars, repoVars, extVars>>

InitSwarm ==
    /\ sFile = <<>>
    /\ sDisk = <<>>
    /\ sFileSize = 0
    /\ sPc = "connecting"
    /\ sTid = None
    /\ sOffset = 0
    /\ sChunkIndex = 0
    /\ sObserved = {}
    /\ sent = <<>>
    /\ net = {}
    /\ rImpl = "protocol"
    /\ rNode = "release"
    /\ rHandler = NoHandler
    /\ PENDING_FILES = <<>>
    /\ downloads = <<>>
    /\ respLog = <<>>
    /\ resp = {}
    /\ InitDomainVars
    /\ InitFtVars
    /\ InitNetVars
    /\ InitRepoVars
    /\ InitBusVars
    /\ InitCodecVars
    /\ InitCryptoVars
    /\ InitSwarmFields
    /\ InitDiscoveryVars
    /\ InitServiceVars
    /\ InitManagerVars
    /\ lastOp = NoOp

\* The command branch and the listen events of the event branch.
NextSwarm ==
    \/ send_command
    \/ HandleCommand
    \/ NewListenAddr

SpecSwarm == InitSwarm /\ [][NextSwarm]_vars

\* The connection and mDNS events of the event branch, which neither read
\* nor write what the commands and the listen events touch.
NextSwarmPeers ==
    \/ SwarmTaskConnectionEvent
    \/ MdnsDiscovered
    \/ MdnsExpired

SpecSwarmPeers == InitSwarm /\ [][NextSwarmPeers]_vars

\* ======================================================= learned addresses
\* discovery/mod.rs: add_discovered_peer on the global DISCOVERED_PEERS, and
\* infrastructure/services.rs: NetworkServiceImpl::add_discovered_peer.

Multiaddrs == {"a1", "a2"}

\* The address lists a discovery signal can carry, repeats included.
AddressLists == UNION {[1..n -> Multiaddrs] : n \in 0..MaxAddrs}

Contains(s, x) == \E i \in 1..Len(s) : s[i] = x

\* The loop of add_discovered_peer for a known peer: each address that the
\* stored list does not contain yet is pushed onto it.
RECURSIVE push_new(_, _)
push_new(addrs, addresses) ==
    IF addresses = <<>>
      THEN addrs
      ELSE push_new(IF Contains(addrs, Head(addresses))
                      THEN addrs
                      ELSE Append(addrs, Head(addresses)),
                    Tail(addresses))

\* HashMap::insert
map_insert(map, key, value) ==
    [k \in (DOMAIN map) \cup {key} |-> IF k = key THEN value ELSE map[k]]

\* discovery::add_discovered_peer: a known peer's list is extended, a new
\* peer gets the list as it was passed in.
discovery_add(map, peer_id, addresses) ==
    IF peer_id \in DOMAIN map
      THEN map_insert(map, peer_id, push_new(map[peer_id], addresses))
      ELSE map_insert(map, peer_id, addresses)

\* NetworkServiceImpl::add_discovered_peer: peers.insert(peer_id, addresses)
service_add(map, peer_id, addresses) == map_insert(map, peer_id, addresses)

Report(m, peer_id, addresses) ==
    [reported EXCEPT ![m][peer_id] = @ \cup Range(addresses)]

discoveryOther == <<wireVars, domainVars, ftVars, netVars, repoVars,
                    busVars, codecVars, cryptoVars, swarmVars, serviceVars,
                    managerVars>>

add_discovered_peer ==
    /\ \E peer_id \in PeerIds, addresses \in AddressLists :
         /\ DISCOVERED_PEERS' = discovery_add(DISCOVERED_PEERS, peer_id, addresses)
         /\ reported' = Report("global", peer_id, addresses)
         /\ lastOp' = Op("add_discovered_peer", peer_id, "Ok")
    /\ UNCHANGED discovered_peers
    /\ UNCHANGED discoveryOther

NetworkServiceImpl_add_discovered_peer ==
    /\ \E peer_id \in PeerIds, addresses \in AddressLists :
         /\ discovered_peers' = service_add(discovered_peers, peer_id, addresses)
         /\ reported' = Report("service", peer_id, addresses)
         /\ lastOp' = Op("NetworkServiceImpl::add_discovered_peer", peer_id, "Ok")
    /\ UNCHANGED DISCOVERED_PEERS
    /\ UNCHANGED discoveryOther

InitDiscovery == InitDomain

NextDiscovery ==
    \/ add_discovered_peer
    \/ NetworkServiceImpl_add_discovered_peer

SpecDiscovery == InitDiscovery /\ [][NextDiscovery]_vars

\* ============================== concurrent calls of TransferDomainService
\* One call of each method of TransferDomainService, made from four tasks,
\* on either event bus and either kind of repository, with one handler
\* subscribed to the bus.

\* ChannelEventPublisher::start_processing, event_rx.recv().await: the
\* consumer takes the oldest event off the channel.
Service_consumer_recv ==
    /\ bus_kind = "channel"
    /\ event_rx = "consumer"
    /\ cons.pc = "recv"
    /\ event_tx # <<>>
    /\ event_tx' = recv(event_tx).rest
    /\ cons' = [cons EXCEPT !.pc = "snapshot", !.event = <<recv(event_tx).event>>]
    /\ lastOp' = Op("recv", recv(event_tx).event.id, "Some")
    /\ UNCHANGED <<transfers, files, peers, events, taskPc, taskLocal, handler_saw,
                   cleared_events>>
    /\ UNCHANGED serviceRest

\* start_processing, handlers.read().await.clone(): the snapshot of the
\* list the consumer was started with.  With an empty snapshot join_all is
\* done at once and the loop is back at recv.
Service_consumer_snapshot ==
    /\ event_rx = "consumer"
    /\ cons.pc = "snapshot"
    /\ cons' = IF cons.handlers = <<>>
                 THEN [cons EXCEPT !.pc = "recv", !.event = <<>>]
                 ELSE [cons EXCEPT !.pc = "dispatch", !.snapshot = cons.handlers,
                                   !.polled = {}]
    /\ lastOp' = Op("recv", cons.event[1].id, "snapshot")
    /\ UNCHANGED <<transfers, files, peers, events, event_tx, taskPc, taskLocal,
                   handler_saw, cleared_events>>
    /\ UNCHANGED serviceRest

\* start_processing, one future of join_all: a handler of the snapshot is
\* given the event.  After the last one the loop is back at recv.
Service_consumer_handle_event ==
    /\ event_rx = "consumer"
    /\ cons.pc = "dispatch"
    /\ \E i \in (1..Len(cons.snapshot)) \ cons.polled :
         /\ handler_saw' = Append(handler_saw, Observation(cons.event[1]))
         /\ cons' = IF join_all_done(cons.snapshot, cons.polled \cup {i}, {})
                      THEN [cons EXCEPT !.pc = "recv", !.event = <<>>,
                                        !.snapshot = <<>>, !.polled = {}]
                      ELSE [cons EXCEPT !.polled = @ \cup {i}]
         /\ lastOp' = Op("handle_event", cons.event[1].id, "Ok")
    /\ UNCHANGED <<transfers, files, peers, events, event_tx, taskPc, taskLocal,
                   cleared_events>>
    /\ UNCHANGED serviceRest

\* The receiver peer is unknown, known but not connected, or connected; the
\* services run on either bus, with the handler "h1" subscribed to it
\* (subscribe fills the publisher's own list), and on either kind of
\* repository.
InitService ==
    /\ sFile = <<>>
    /\ sDisk = <<>>
    /\ sFileSize = 0
    /\ sPc = "connecting"
    /\ sTid = None
    /\ sOffset = 0
    /\ sChunkIndex = 0
    /\ sObserved = {}
    /\ sent = <<>>
    /\ net = {}
    /\ rImpl = "protocol"
    /\ rNode = "release"
    /\ rHandler = NoHandler
    /\ PENDING_FILES = <<>>
    /\ downloads = <<>>
    /\ respLog = <<>>
    /\ resp = {}
    /\ transfers = <<>>
    /\ files = {}
    /\ events = <<>>
    /\ peers \in {<<>>} \cup
                 {[p \in PeerIds |-> [addresses |-> <<"addr1">>, is_connected |-> c]] :
                     c \in BOOLEAN}
    /\ InitFtVars
    /\ InitNetVars
    /\ repoImpl \in {"memory", "sled"}
    /\ taskPc = [t \in ServiceTasks |-> "idle"]
    /\ taskLocal = [t \in ServiceTasks |-> NoLocal]
    /\ bus_kind \in Buses
    /\ runtime = "multi_thread"
    /\ mem_handlers = IF bus_kind = "memory" THEN <<"h1">> ELSE <<>>
    /\ chan_handlers = IF bus_kind = "channel" THEN <<"h1">> ELSE <<>>
    /\ event_tx = <<>>
    /\ event_rx = "held"
    /\ cons = NoConsumer
    /\ pubs = [p \in Publishers |-> IdlePublisher(0)]
    /\ bus_received = [b \in Buses |-> [h \in Handlers |-> <<>>]]
    /\ returned = {}
    /\ InitCodecVars
    /\ InitCryptoVars
    /\ InitSwarmVars
    /\ InitDiscoveryVars
    /\ InitServiceVars
    /\ InitManagerVars
    /\ lastOp = NoOp

\* The application has either spawned start_processing(event_rx, handlers),
\* with a list of handlers it built, or dropped the receiver.
Service_receiver ==
    /\ bus_kind = "channel"
    /\ event_rx = "held"
    /\ \/ /\ event_rx' = "consumer"
          /\ \E hs \in ConsumerLists : cons' = [NoConsumer EXCEPT !.handlers = hs]
          /\ UNCHANGED event_tx
       \/ /\ event_rx' = "dropped"
          /\ event_tx' = <<>>
          /\ UNCHANGED cons
    /\ lastOp' = Op("receiver", None, event_rx')
    /\ UNCHANGED <<transfers, files, peers, events, taskPc, taskLocal, handler_saw,
                   cleared_events>>
    /\ UNCHANGED <<wireVars, ftVars, netVars, repoImpl, bus_kind, runtime,
                   mem_handlers, chan_handlers, pubs, bus_received,
                   returned, codecVars, cryptoVars, swarmVars, discoveryVars,
                   managerVars>>

NextService ==
    \/ initiate_find_peer
    \/ initiate_metadata
    \/ initiate_save_file
    \/ initiate_save_transfer
    \/ accept_find
    \/ progress_find
    \/ cancel_find
    \/ Service_publish
    \/ Service_handle_event
    \/ Service_save
    \/ Service_consumer_recv
    \/ Service_consumer_snapshot
    \/ Service_consumer_handle_event
    \/ Service_receiver

SpecService == InitService /\ [][NextService]_vars

\* ================================================================ claims
\* What the receiver holds under the name of the transfer's file (an absent
\* file reads as empty).
ReceiverFile ==
    LET file_path == format_path(DownloadDir, FileName)
    IN IF file_path \in DOMAIN downloads THEN downloads[file_path] ELSE <<>>

\* The FileChunk requests the sender has emitted, in order of emission.
IsFileChunk(m) == m.type = "FileChunk"
ChunksSent == SelectSeq(sent, IsFileChunk)

\* Number of entries of the sequence s that satisfy Test.
Count(s, Test(_)) == Cardinality({i \in 1..Len(s) : Test(s[i])})

\* C1: whenever the sender's send operation has returned success, the file
\* the receiver has written equals the sender's file byte for byte (for a
\* file nobody has changed meanwhile).
C1_CompletedTransferIntact ==
    (sPc = "returnedOk" /\ sDisk = sFile) => ReceiverFile = sFile

\* C2: stop-and-wait: every FileChunk with chunk_index i >= 1 that has been
\* emitted was emitted after the sender observed the ChunkResponse of chunk
\* i - 1 (the observed set only grows, so the response is in it).
C2_StopAndWait ==
    \A k \in 1..Len(ChunksSent) :
        ChunksSent[k].chunk_index >= 1 =>
            \E r \in sObserved :
                /\ r.type = "ChunkResponse"
                /\ r.transfer_id = ChunksSent[k].transfer_id
                /\ r.chunk_index = ChunksSent[k].chunk_index - 1

\* C3: the i-th FileChunk emitted (i from 0) has chunk_index i, carries the
\* file bytes from offset i * CHUNK_SIZE of length
\* min(CHUNK_SIZE, S - i * CHUNK_SIZE), has is_last exactly when
\* i = total_chunks - 1, and once send_file has returned exactly
\* total_chunks = ceil(S / CHUNK_SIZE) chunks have been emitted (for a file
\* nobody has changed meanwhile).
C3_ChunkLayout ==
    LET S == Len(sFile)
        total == TotalChunks(S)
    IN sDisk = sFile =>
       /\ \A k \in 1..Len(ChunksSent) :
             LET i == k - 1
                 c == ChunksSent[k]
             IN /\ c.chunk_index = i
                /\ c.total_chunks = total
                /\ c.data = SubSeq(sFile, i * CHUNK_SIZE + 1,
                                   i * CHUNK_SIZE + Min(CHUNK_SIZE, S - i * CHUNK_SIZE))
                /\ c.is_last = (i = total - 1)
       /\ sPc = "returnedOk" => Len(ChunksSent) = total

\* The receiver has written the last chunk of transfer tid: the chunk with
\* is_last was taken from the wire and answered.
LastChunkWritten(tid) ==
    \E m \in Range(sent) :
        /\ m.type = "FileChunk" /\ m.transfer_id = tid /\ m.is_last
        /\ m \notin net
        /\ \E r \in Range(respLog) :
              r.type = "ChunkResponse" /\ r.transfer_id = tid
                  /\ r.chunk_index = m.chunk_index

IsTransferComplete(r) == r.type = "TransferComplete" /\ r.transfer_id = Tid
IsTransferCompleteOk(r) == IsTransferComplete(r) /\ r.success

\* C4: the receiver produces at most one TransferComplete for a transfer,
\* and once the last chunk has been written it has produced exactly one,
\* with success = true.
C4_OneTerminalResponse ==
    /\ Count(respLog, IsTransferComplete) <= 1
    /\ LastChunkWritten(Tid) =>
          /\ Count(respLog, IsTransferComplete) = 1
          /\ Count(respLog, IsTransferCompleteOk) = 1

\* C5: the send operation has returned success only if the sender has
\* received TransferComplete{success = true} for the transfer.
C5_CompletedOnlyAfterFinalAck ==
    sPc = "returnedOk" =>
        \E r \in sObserved : r.type = "TransferComplete" /\ r.success

\* ------------------------------------------------------- domain claims
ServiceOps == {"initiate_transfer", "accept_transfer", "update_progress", "cancel_transfer"}

\* Number of TransferCompleted and TransferFailed events in log for transfer t.
TerminalEventCount(log, t) ==
    Cardinality({i \in 1..Len(log) :
        log[i].type \in {"TransferCompleted", "TransferFailed"} /\ log[i].id = t})

\* Both counters have reached their totals.
BothReached(progress) ==
    /\ progress.bytes_transferred >= progress.total_bytes
    /\ progress.chunks_transferred >= progress.total_chunks

\* C6: once the stored status of a transfer is Completed, Failed or
\* Cancelled, no accept_transfer, update_progress or cancel_transfer call
\* changes it.
C6_TerminalNeverReopened ==
    [][\A t \in DOMAIN transfers :
          (/\ lastOp'.op \in {"accept_transfer", "update_progress", "cancel_transfer"}
           /\ Terminal(transfers[t].status))
          => transfers'[t].status = transfers[t].status]_vars

\* C7: a transfer never has more than one TransferCompleted or
\* TransferFailed event, and an update_progress or cancel_transfer call that
\* takes it to a terminal status leaves it with exactly one.
C7_OneTerminalEvent ==
    [][\A t \in DOMAIN transfers :
          /\ TerminalEventCount(events', t) <= 1
          /\ (/\ lastOp'.op \in {"update_progress", "cancel_transfer"}
              /\ lastOp'.id = t
              /\ ~Terminal(transfers[t].status)
              /\ Terminal(transfers'[t].status))
             => TerminalEventCount(events', t) = 1]_vars

\* C8: cancel_transfer on a transfer whose status is terminal leaves the
\* stored record as it was and publishes no event.
C8_CancelTerminalNoOp ==
    [][\A t \in DOMAIN transfers :
          (/\ lastOp'.op = "cancel_transfer"
           /\ lastOp'.id = t
           /\ Terminal(transfers[t].status))
          => /\ transfers'[t] = transfers[t]
             /\ events' = events]_vars

\* C9: cancel_transfer on a transfer that is not terminal leaves it
\* Cancelled and has emitted a CancelTransfer request with its id.
C9_CancelEmitsCancelTransfer ==
    [][\A t \in DOMAIN transfers :
          (/\ lastOp'.op = "cancel_transfer"
           /\ lastOp'.id = t
           /\ ~Terminal(transfers[t].status))
          => /\ transfers'[t].status = "Cancelled"
             /\ \E m \in Range(sent') :
                   m.type = "CancelTransfer" /\ m.transfer_id = t]_vars

\* C10 as stated: in every step that changes a transfer's status to
\* Completed, both counters of its progress have reached their totals.
C10_CompletedOnlyWhenComplete ==
    [][\A t \in DOMAIN transfers' :
          (/\ transfers'[t].status = "Completed"
           /\ (t \notin DOMAIN transfers \/ transfers[t].status # "Completed"))
          => BothReached(transfers'[t].progress)]_vars

\* C10 for update_progress alone: a call of update_progress that is about
\* to publish TransferCompleted holds a copy of the record whose status it
\* has set to Completed and whose counters have both reached their totals.
C10_UpdateProgressCompletesOnlyWhenComplete ==
    \A t \in {"progress"} \cap DOMAIN taskPc :
        (taskPc[t] = "publish" /\ taskLocal[t].event[1].type = "TransferCompleted")
            => /\ taskLocal[t].transfer[1].status = "Completed"
               /\ BothReached(taskLocal[t].transfer[1].progress)

\* update_progress has completed a transfer of a non-empty file: its
\* TransferCompleted event is the newest in the log and the stored status is
\* Completed.
C10_Witness ==
    /\ lastOp.op = "update_progress" /\ lastOp.result = "Ok"
    /\ lastOp.id \in DOMAIN transfers
    /\ transfers[lastOp.id].status = "Completed"
    /\ transfers[lastOp.id].progress.total_bytes > 0
    /\ Len(events) > 0
    /\ events[Len(events)] = [type |-> "TransferCompleted", id |-> lastOp.id]
    /\ TerminalEventCount(events, lastOp.id) = 1

\* C11: in every state, every transfer's bytes_transferred is at most its
\* total_bytes.
C11_BytesWithinTotal ==
    \A t \in DOMAIN transfers :
        transfers[t].progress.bytes_transferred <= transfers[t].progress.total_bytes

\* C12: no step makes bytes_transferred or chunks_transferred of a transfer
\* smaller than it was.
C12_ProgressMonotonic ==
    [][\A t \in DOMAIN transfers :
          /\ transfers'[t].progress.bytes_transferred
                >= transfers[t].progress.bytes_transferred
          /\ transfers'[t].progress.chunks_transferred
                >= transfers[t].progress.chunks_transferred]_vars

\* ----------------------------------------------------- receiver claims
\* The request m is the one the receiving node takes up in this step.
Handled(m) == m \in net /\ net' = net \ {m} /\ sent' = sent

\* The FileChunk request whose handler is between two awaits.
InHand == IF rHandler = NoHandler THEN {} ELSE {rHandler.m[1]}

\* This step is one of the steps of the handler of the request m.
Handles(m) == Handled(m) \/ (m \in InHand /\ rHandler' # rHandler)

\* The handler of the request m returns in this step.
Returns(m) == Handles(m) /\ rHandler' = NoHandler

IsAcceptedHandshake(r) == r.type = "HandshakeResponse" /\ r.accepted

\* The transfer active for the peer: the one of the latest accepted
\* handshake, unless a TransferComplete for it has been sent since.
ActiveTid ==
    LET hs == {i \in 1..Len(respLog) : IsAcceptedHandshake(respLog[i])}
    IN IF hs = {} THEN None
       ELSE LET last == CHOOSE i \in hs : \A j \in hs : j <= i
                tid == respLog[last].transfer_id
            IN IF \E j \in (last + 1)..Len(respLog) :
                     /\ respLog[j].type = "TransferComplete"
                     /\ respLog[j].transfer_id = tid
                 THEN None ELSE tid

\* C13: a FileChunk whose transfer_id differs from the transfer active for
\* the peer is written to no file and is answered with
\* ChunkResponse{success = false, error = "unknown transfer"}.
C13_UnknownTransferRejected ==
    [][\A m \in net \cup InHand :
          (/\ m.type = "FileChunk"
           /\ ActiveTid # None
           /\ m.transfer_id # ActiveTid)
          => /\ Handles(m) => downloads' = downloads
             /\ Returns(m) =>
                   respLog' = Append(respLog,
                       ChunkResponse(m.transfer_id, m.chunk_index, FALSE, "unknown transfer"))]_vars

\* C15: a FileChunk handled while no transfer is active for the peer is
\* written to no file and is answered with
\* ChunkResponse{success = false, error = "no handshake"}.
C15_NoHandshakeRejected ==
    [][\A m \in net \cup InHand :
          (/\ m.type = "FileChunk"
           /\ ActiveTid = None)
          => /\ Handles(m) => downloads' = downloads
             /\ Returns(m) =>
                   respLog' = Append(respLog,
                       ChunkResponse(m.transfer_id, m.chunk_index, FALSE, "no handshake"))]_vars

\* A TransferComplete for tid has been sent and no handshake for tid has
\* been accepted since.
AlreadyTerminated(tid) ==
    \E i \in 1..Len(respLog) :
        /\ respLog[i].type = "TransferComplete"
        /\ respLog[i].transfer_id = tid
        /\ \A j \in (i + 1)..Len(respLog) :
              ~(IsAcceptedHandshake(respLog[j]) /\ respLog[j].transfer_id = tid)

\* C18: a CancelTransfer for a transfer that an earlier CancelTransfer has
\* already ended is a silent no-op: no further response is sent.
C18_CancelIdempotent ==
    [][\A m \in net :
          (/\ m.type = "CancelTransfer"
           /\ Handled(m)
           /\ AlreadyTerminated(m.transfer_id))
          => /\ respLog' = respLog
             /\ resp' = resp]_vars

\* ------------------------------------------------------ manager claims
\* C14: a handshake for a transfer id that is already being received is
\* rejected, and the active transfer and the files on disk stay as they are.
C14_DuplicateHandshakeRejected ==
    [][\A tid \in DOMAIN mgr_active_transfers :
          (/\ IsReceiving(tid)
           /\ lastOp'.op = "handle_file_request" /\ lastOp'.id = tid)
          => /\ lastOp'.result # "Ok(true)"
             /\ mgr_active_transfers' = mgr_active_transfers
             /\ downloads' = downloads]_vars

\* C16: the number of active transfers that handshakes have admitted never
\* exceeds the configured cap.
C16_ActiveTransfersWithinCap ==
    Cardinality({t \in DOMAIN mgr_active_transfers : IsReceiving(t)})
        <= max_concurrent_transfers

\* C17: every file on the receiver's disk lies below the download
\* directory.
C17_FilesInsideDownloadDir ==
    \A path \in DOMAIN downloads : InsideDir(path, DownloadDir)

\* ----------------------------------------------------- swarm task claims
\* C19: when a connection to a peer closes, every transfer with that peer
\* that was Pending or InProgress is Failed afterwards.
C19_DisconnectFailsActiveTransfers ==
    [][\A t \in DOMAIN transfers :
          (/\ lastOp'.op = "ConnectionClosed"
           /\ open_connections' # open_connections
           /\ lastOp'.id = transfers[t].receiver
           /\ transfers[t].status \in {"Pending", "InProgress"})
          => transfers'[t].status = "Failed"]_vars

\* ------------------------------------------------------ repository claims
\* C20: when update_transfer_status and update_transfer_progress, called
\* concurrently for the same stored transfer, have both returned, the stored
\* record carries the new status and the new progress.
C20_NoLostUpdate ==
    (\A t \in Tasks : taskPc[t] = "done")
    => /\ transfers[RepoTid].status = taskLocal["status"].arg[1]
       /\ transfers[RepoTid].progress = taskLocal["progress"].arg[1]

\* C20 for InMemoryTransferRepository alone: with the in-memory repository
\* neither update is lost.
C20_InMemoryNoLostUpdate ==
    (repoImpl = "memory" /\ \A t \in Tasks : taskPc[t] = "done")
    => /\ transfers[RepoTid].status = taskLocal["status"].arg[1]
       /\ transfers[RepoTid].progress = taskLocal["progress"].arg[1]

\* ---------------------------------------------------------------- event bus
Occurrences(s, e) == Cardinality({i \in 1..Len(s) : s[i] = e})

MemReturned == {r \in returned : r.bus = "memory"}

\* C21: on the in-memory bus, every publish that has returned has returned
\* Ok, its event is in the event log once (unless clear_events has taken it
\* out since, and then it is not in the log), and every handler of the
\* snapshot has received the event exactly once (handlers outside the
\* snapshot have not), whether or not some handler of the snapshot returned
\* an error.
C21_InMemoryFanOut ==
    \A r \in MemReturned :
        /\ r.result = "Ok"
        /\ Occurrences(events, r.event) =
              (IF r.event \in cleared_events THEN 0 ELSE 1)
        /\ \A h \in Handlers :
             Occurrences(bus_received["memory"][h], r.event) =
                 (IF h \in Range(r.handlers) THEN 1 ELSE 0)

\* A publish has returned whose snapshot held two handlers, one of which
\* returned an error.
C21_Witness ==
    \E r \in MemReturned : Len(r.handlers) = 2 /\ r.failed # {}

\* C22: on either bus, a handler that has started handling two events of
\* one publisher started them in the order in which they were published.
C22_FifoPerPublisher ==
    \A b \in Buses : \A h \in Handlers :
        \A i, j \in 1..Len(bus_received[b][h]) :
            (i < j /\ bus_received[b][h][i][1] = bus_received[b][h][j][1])
                => bus_received[b][h][i][2] < bus_received[b][h][j][2]

\* A handler on the channel bus has started both events of p1 with an
\* event of p2 in between.
C22_Witness ==
    \E h \in Handlers :
        LET log == bus_received["channel"][h] IN
        /\ Len(log) >= 3
        /\ \E i, j, k \in 1..Len(log) :
             /\ i < j /\ j < k
             /\ log[i] = <<"p1", 1>> /\ log[j][1] = "p2" /\ log[k] = <<"p1", 2>>

\* The same interleaving on the in-memory bus.
C22_WitnessInMemory ==
    \E h \in Handlers :
        LET log == bus_received["memory"][h] IN
        \E i, j, k \in 1..Len(log) :
             /\ i < j /\ j < k
             /\ log[i] = <<"p1", 1>> /\ log[j][1] = "p2" /\ log[k] = <<"p1", 2>>

\* C23: on the channel bus, an event whose publish returned Ok is eventually
\* handled by every handler that had been subscribed on the publisher when
\* it was published.
C23_ChannelEventuallyDelivered ==
    \A p \in Publishers : \A n \in 1..MaxPublish : \A h \in Handlers :
        (\E r \in returned :
            /\ r.bus = "channel" /\ r.event = <<p, n>> /\ r.result = "Ok"
            /\ h \in Range(r.handlers))
        ~> (<<p, n>> \in Range(bus_received["channel"][h]))

\* The same with the consumer task running from the start of the event's
\* life: the receiver is in the consumer's hands when publish returns.
C23_RunningConsumerDelivers ==
    \A p \in Publishers : \A n \in 1..MaxPublish : \A h \in Handlers :
        (/\ event_rx = "consumer"
         /\ \E r \in returned :
            /\ r.bus = "channel" /\ r.event = <<p, n>> /\ r.result = "Ok"
            /\ h \in Range(r.handlers))
        ~> (<<p, n>> \in Range(bus_received["channel"][h]))

\* -------------------------------------------------------------------- codec
\* The length the prefix of the substream read by r declares.
DeclaredLen(r) ==
    r.input[1] * 16777216 + r.input[2] * 65536 + r.input[3] * 256 + r.input[4]

HasPrefix(r) == r.op # "none" /\ Len(r.input) >= 4

\* C24: a read of a request or response whose prefix declares more than
\* MAX_FRAME_SIZE fails, and it fails with no buffer allocated and no
\* payload byte read.
C24_OversizeFrameFailsBeforeAllocation ==
    (HasPrefix(rd) /\ DeclaredLen(rd) > MAX_FRAME_SIZE)
        => (~rd.ok /\ rd.allocated = 0 /\ rd.payload_read = 0)

\* An oversize frame with payload bytes waiting behind the prefix has been
\* read and refused.
C24_Witness ==
    /\ HasPrefix(rd) /\ DeclaredLen(rd) > MAX_FRAME_SIZE
    /\ Len(rd.input) > 4
    /\ ~rd.ok

IsHandshake(m) == m.variant \in {"HandshakeRequest", "HandshakeResponse"}

\* C25: a handshake message written in a frame longer than
\* MAX_HANDSHAKE_SIZE is not delivered by the read, and the read fails
\* with no buffer allocated.
C25_OversizeHandshakeFailsBeforeAllocation ==
    (/\ HasPrefix(rd) /\ written # <<>>
     /\ IsHandshake(written[1].msg)
     /\ DeclaredLen(rd) > MAX_HANDSHAKE_SIZE)
        => (~rd.ok /\ rd.allocated = 0)

\* The read delivered a message equal to the written one in every field.
RoundTripped ==
    /\ rd.ok
    /\ rd.msg[1].variant = written[1].msg.variant
    /\ rd.msg[1] = written[1].msg

\* The written frame is within the caps the reader applies to it.
WithinCaps ==
    /\ DeclaredLen(rd) <= MAX_FRAME_SIZE
    /\ written[1].msg.variant = "HandshakeRequest"
           => DeclaredLen(rd) <= MAX_HANDSHAKE_SIZE

\* C26 as stated: every message written by write_request / write_response
\* is accepted by the matching read and decodes to an equal message.
C26_EveryMessageRoundTrips ==
    (HasPrefix(rd) /\ written # <<>>) => RoundTripped

\* C26 amended: every message whose frame is within the caps is accepted
\* by the matching read and decodes to an equal message.
C26_MessageWithinCapsRoundTrips ==
    (HasPrefix(rd) /\ written # <<>> /\ WithinCaps) => RoundTripped

\* A FileChunk carrying a full chunk of data has made the round trip.
C26_Witness ==
    /\ HasPrefix(rd) /\ written # <<>>
    /\ written[1].msg.variant = "FileChunk"
    /\ Len(written[1].msg.data) = CHUNK_SIZE
    /\ RoundTripped

\* C27: whenever the decoder accepts a frame, encoding the decoded message
\* gives back exactly that frame.
C27_ReencodeGivesSameFrame ==
    rd.ok =>
        frame(IF rd.op = "read_request" THEN encode_request(rd.msg[1])
              ELSE encode_response(rd.msg[1]))
            = SubSeq(rd.input, 1, 4 + DeclaredLen(rd))

\* ------------------------------------------------------------------- crypto
\* decrypt was given exactly what encrypt returned.
DecryptOfEncrypted == enc.ok /\ dec.op = "decrypt" /\ dec.input = enc.out

\* C28: for a key of KEY_LEN bytes and any plaintext, decrypting the output
\* of encrypt with the same key returns the plaintext, and decrypting it
\* with any other key fails.
C28_AeadRoundTrip ==
    (DecryptOfEncrypted /\ Len(enc.key) = KEY_LEN) =>
        /\ dec.key = enc.key => (dec.ok /\ dec.out = enc.input)
        /\ dec.key # enc.key => ~dec.ok

\* The empty plaintext has made the round trip.
C28_Witness ==
    /\ DecryptOfEncrypted /\ enc.input = <<>>
    /\ dec.key = enc.key /\ dec.ok /\ dec.out = <<>>

\* Decryption with another key of the right length has failed.
C28_WitnessWrongKey ==
    /\ DecryptOfEncrypted /\ enc.input # <<>>
    /\ dec.key # enc.key /\ Len(dec.key) = KEY_LEN /\ ~dec.ok

\* -------------------------------------------------------- zero-byte transfer
\* The sender has observed the accepted handshake of its file and entered
\* send_file, which found the file empty.
ZeroByteAccepted == sFileSize = 0 /\ sPc \in {"sending", "returnedOk"}

TransferCompletedEmitted ==
    \E i \in 1..Len(events) : events[i].type = "TransferCompleted"

\* C29: for a zero-byte file no FileChunk is ever emitted, and once its
\* handshake has been accepted a TransferCompleted event is eventually
\* emitted.
C29_ZeroByteTransferCompletes ==
    /\ [](sFileSize = 0 => ChunksSent = <<>>)
    /\ (ZeroByteAccepted ~> TransferCompletedEmitted)

\* The first half alone, for a file that is empty when send_file takes its
\* size (or that send_file has not opened): no FileChunk is emitted.
C29_ZeroByteSendsNoChunk == sFileSize = 0 => ChunksSent = <<>>

\* ------------------------------------------------- connected peers' addresses
ConnectedPeers == {p \in DOMAIN peers : peers[p].is_connected}

\* C30: every peer recorded as connected in the peer repository has a
\* non-empty address list, whatever register_discovered_peer and
\* update_connection_status calls were made.
C30_ConnectedPeerHasAddress ==
    \A p \in ConnectedPeers : peers[p].addresses # <<>>

\* --------------------------------------------------------------- swarm task
\* C31: the event branch calls kademlia.bootstrap() exactly once, at the
\* first NewListenAddr event, and never at a later one, whatever the first
\* call returned.
C31_BootstrapTriggeredOnce ==
    IF listen_events = 0
      THEN bootstrap_log = <<>>
      ELSE Len(bootstrap_log) = 1 /\ bootstrap_log[1].at = 1

HandledCommands == [i \in 1..Len(handled) |-> handled[i].command]

\* C32: an error returned by a handler never ends the swarm task: the task
\* keeps running, the commands handled so far are the first commands sent,
\* in the order sent, and the next queued command can be taken.
C32_ErrorsNeverStopTheTask ==
    /\ swarm_task = "running"
    /\ HandledCommands \o command_rx = submitted
    /\ command_rx # <<>> => ENABLED HandleCommand

\* A command failed and the command queued after it has been handled too.
C32_Witness ==
    \E i \in 1..Len(handled) :
        /\ handled[i].result = "Err"
        /\ i < Len(handled)
        /\ HandledCommands = submitted

\* C36: connected_peers has an entry for a peer exactly when at least one
\* connection to that peer is established.
C36_EntryIffConnectionOpen ==
    \A p \in PeerIds : (p \in DOMAIN connected_peers) <=> (open_connections[p] > 0)

\* -------------------------------------------------------- learned addresses
NoRepeats(s) == \A i, j \in 1..Len(s) : s[i] = s[j] => i = j

Stored(map, p) == IF p \in DOMAIN map THEN map[p] ELSE <<>>

KeepsEveryAddress(m, map) ==
    \A p \in PeerIds : reported[m][p] \subseteq Range(Stored(map, p))

\* C33: after any sequence of add_discovered_peer calls, each peer's stored
\* address list holds every address ever reported for the peer and holds no
\* address twice, in the discovery module's map and in the network
\* service's map.
C33_AddressesMergedWithoutRepeats ==
    /\ KeepsEveryAddress("global", DISCOVERED_PEERS)
    /\ KeepsEveryAddress("service", discovered_peers)
    /\ \A p \in DOMAIN DISCOVERED_PEERS : NoRepeats(DISCOVERED_PEERS[p])
    /\ \A p \in DOMAIN discovered_peers : NoRepeats(discovered_peers[p])

\* The part of C33 that the discovery module keeps: no reported address is
\* ever lost from DISCOVERED_PEERS.
C33_GlobalMapKeepsEveryAddress == KeepsEveryAddress("global", DISCOVERED_PEERS)

\* The parts of C33 taken one map at a time.
C33_GlobalMapHasNoRepeats ==
    \A p \in DOMAIN DISCOVERED_PEERS : NoRepeats(DISCOVERED_PEERS[p])

C33_ServiceMapKeepsEveryAddress == KeepsEveryAddress("service", discovered_peers)

\* ------------------------------------------- concurrent calls of the service
Returned(t, result) == taskPc[t] = "done" /\ taskLocal[t].result = result

ReturnedErr(t) ==
    /\ taskPc[t] = "done"
    /\ taskLocal[t].result # "Ok"

\* C34: once cancel_transfer(id) has returned Ok, the stored status of id is
\* terminal, in every interleaving with concurrent update_progress and
\* accept_transfer calls.
C34_CancelNeverLost ==
    Returned("cancel", "Ok") => Terminal(transfers[taskLocal["cancel"].id].status)

\* C35: whenever a handler is given a TransferCompleted event, the
\* repository already stores the transfer as Completed.
C35_CompletionPersistedBeforeEvent ==
    \A i \in 1..Len(handler_saw) :
        handler_saw[i].type = "TransferCompleted"
            => handler_saw[i].stored = <<"Completed">>

TransferStartedPublished ==
    \/ \E i \in 1..Len(events) : events[i].type = "TransferStarted"
    \/ \E i \in 1..Len(event_tx) : event_tx[i].type = "TransferStarted"
    \/ cons.event # <<>> /\ cons.event[1].type = "TransferStarted"
    \/ \E i \in 1..Len(handler_saw) : handler_saw[i].type = "TransferStarted"

\* C40: whenever initiate_transfer has returned an error, no File record and
\* no Transfer record have been saved and no TransferStarted event has been
\* published.
C40_InitiateAllOrNothing ==
    ReturnedErr("initiate") =>
        /\ files = {}
        /\ transfers = <<>>
        /\ ~TransferStartedPublished

\* The part of C40 that holds: the errors raised before the first save
\* (repository read failed, receiver unknown or not connected, metadata or
\* hash failure) leave
\* nothing behind.
C40_EarlyErrorsSaveNothing ==
    (\/ Returned("initiate", "Err: find_peer_by_id")
     \/ Returned("initiate", "Err: Receiver peer not found")
     \/ Returned("initiate", "Err: Receiver peer is not connected")
     \/ Returned("initiate", "Err: file"))
        => files = {} /\ transfers = <<>> /\ ~TransferStartedPublished

\* -------------------------------------------------- FileTransferManager table
RECURSIVE SumLen(_)
SumLen(log) == IF log = <<>> THEN 0 ELSE Head(log).len + SumLen(Tail(log))

\* Each accepted chunk starts where the one before it ended; the first
\* starts at 0.
GapFree(log) ==
    \A i \in 1..Len(log) :
        log[i].offset = IF i = 1 THEN 0 ELSE log[i - 1].offset + log[i - 1].len

ProcessChunkRejected ==
    lastOp'.op = "process_chunk" /\ lastOp'.result # "Ok"

\* C37: the chunks process_chunk has accepted for a receiving transfer were
\* accepted in gap-free increasing offset order and the current offset is
\* their total length; a call that is rejected leaves the table unchanged.
C37_ChunksAcceptedInOffsetOrder ==
    /\ [](\A tid \in MgrTids :
            IsReceiving(tid) =>
                /\ GapFree(mgr_chunks[tid])
                /\ mgr_active_transfers[tid].offset = SumLen(mgr_chunks[tid]))
    /\ [][ProcessChunkRejected => mgr_active_transfers' = mgr_active_transfers]_vars

\* Two chunks have been accepted for T1, and the last call offered a chunk
\* at an offset that is not the current one.
C37_Witness ==
    /\ IsReceiving(Tid)
    /\ Len(mgr_chunks[Tid]) >= 2
    /\ lastOp = Op("process_chunk", Tid, "Err(Invalid offset)")

\* C38: when complete_transfer returns an error, the active-transfer table
\* is as it was before the call.
C38_FailedCompleteLeavesTable ==
    [][(lastOp'.op = "complete_transfer" /\ lastOp'.result # "Ok")
          => mgr_active_transfers' = mgr_active_transfers]_vars

\* C39: after process_transfer_completed(id, ..) has returned, id is not in
\* the active-transfer table, whether success was true or false.
C39_FinishedTransferLeavesTable ==
    lastOp.op = "process_transfer_completed"
        => lastOp.id \notin DOMAIN mgr_active_transfers

====
